---- MODULE Spec2Model ----
(***************************************************************************)
(* Monitor registry and client cache of the Service Bus explorer           *)
(* (src/src/utils/serviceBusService.ts, serviceBusClientManager.ts).       *)
(*                                                                         *)
(* JavaScript runs the code between two awaits without interruption, so    *)
(* every action below is one such segment: from a call (or the resumption  *)
(* of an await) to the next await or to the return.  A task is one pending *)
(* async call; its pc names the await it is suspended at.  The pending     *)
(* calls form a bag: two calls with the same arguments suspended at the    *)
(* same await are two copies of one record.                                *)
(***************************************************************************)
EXTENDS Integers, Sequences, FiniteSets, Bags, TLC

\* ------------------------------------------------------------------ bounds
MaxTasks == 2         \* async calls pending at the same time
MaxReceivers == 2     \* receivers created in one run
MaxClients == 2       \* data-plane (and control-plane) clients created in one run
MaxMessages == 1      \* messages that arrive in one run
MaxQueued == 2        \* messages sent to the entity retrievals read
MaxAmount == 2        \* the largest amount a retrieval asks for
MaxRetrievals == 1    \* retrieval calls in one run
MaxOperations == 2    \* purge and transfer calls in one run
Backlog == 11         \* the messages of a sub-queue that holds more than one chunk
MaxSignatures == 2    \* the known signatures one error message includes
MaxPages == 2         \* the pages of one listing
MaxArrays == 4        \* the favorites arrays created (defaults of get, clones of update)
MaxDeliveryCount == 2  \* the entities' maxDeliveryCount: deliveries before a message is dead-lettered

ConnStrs == {"csA", "csB"}
Entities == {"orders", "audit"}

\* The broker's topology: namespace csA holds the queue orders, namespace csB a topic
\* with the subscription audit.
Topology == {<<"csA", "orders">>, <<"csB", "audit">>}
Messages == 1..MaxMessages

\* const iterations = 50
iterations == 50

\* receiver.receiveMessages(10, ...)
ReceiveBatchSize == 10

\* completeMessages, receiveAllMessages: receiver.receiveMessages(10, { maxWaitTimeInMs: 150 })
DrainBatchSize == 10

\* transferMessages: receivedMessages.splice(0, 10)
ChunkSize == 10

\* The messageIds producers give their messages; "" is a message sent without one.
MessageIds == {"", "a", "b"}
Amounts == -1..MaxAmount
SubQueues == {"live", "dl"}

\* The tree holds QueueItems and SubscriptionItems; each passes its own type.
EntityType(e) == IF e = "orders" THEN "queue" ELSE "subscription"

VARIABLES
  clients,         \* ServiceBusClientManager.clients: connection string -> client id, 0 = no entry
  adminClients,    \* ServiceBusClientManager.adminClients, likewise
  clientObjs,      \* every ServiceBusClient constructed: <<[cs, st]>>, id = index
  adminCount,      \* the number of ServiceBusAdministrationClients constructed, id = its rank
  activeMonitors,  \* the registry: monitor key -> receiver id, 0 = no entry
  receivers,       \* every receiver startMonitoring created: <<[key, cb, st]>>
  sessionEntities, \* broker: the entities whose properties say requiresSession
  messages,        \* broker: message id -> [key, st, by, dc, cb]
  subq,            \* broker: the sub-queues of the entity retrievals read: [live, dl] of <<[seq, id, dc, lk]>>
  ret,             \* the retrieval call (peekQueueMessages / peekSubscriptionMessages) and its two sides
  opn,             \* the purge or dead-letter transfer call, its receiver and its sender
  info,            \* the getServiceBusInfo call and its listings
  ui,              \* the user operation in progress and the error messages shown for it
  store,           \* the extension's storage: secrets, the connection list, the favorites array
  icons,           \* the tree items' iconPath: monitor key -> "database" | "account" | "bell"
  tasks,           \* the bag of pending calls
  last             \* history: how the call that settled last ended

vars == <<clients, adminClients, clientObjs, adminCount, activeMonitors, receivers,
          sessionEntities, subq, ret, opn, info, ui, store, icons, messages, tasks, last>>

\* const monitorKey = `${connectionString}:${entityPath}`; an entity path holds no
\* colon, so the string determines the pair.
MonitorKey(cs, e) == <<cs, e>>

Keys == {MonitorKey(k[1], k[2]) : k \in Topology}

AnyKey == <<"csA", "orders">>

Task(op, k) ==
  [op |-> op, pc |-> "", key |-> k, topic |-> FALSE, cb |-> FALSE,
   mon |-> 0, cli |-> 0, arr |-> 0, pending |-> {}, alone |-> TRUE]

NoMessage == [key |-> AnyKey, st |-> "absent", by |-> 0, dc |-> 0, cb |-> 0]

\* One side of a retrieval: the promise peekFn(receiver, amount), or Promise.resolve([]).
\* rcv: the side's receiver; landed: the peekMessages calls that have settled;
\* all: allMessages; pend: the abandonMessage calls in flight; err: an exception is on its
\* way out through the finally; held: the messages the sub-queue held at the call.
NoSide ==
  [amount |-> 0, held |-> {}, rcv |-> "none", pc |-> "done", landed |-> 0, batchCount |-> 0,
   all |-> <<>>, pend |-> {}, err |-> FALSE]

\* n: the retrieval calls made; receive: useReceiveMode; out: how the call settled;
\* errs: the ErrorHandler.handleError notifications it caused; pf, ps: some peekMessages
\* call of the retrieval has failed, has succeeded.
NoRetrieval ==
  [n |-> 0, receive |-> FALSE, out |-> "none", errs |-> 0, pf |-> FALSE, ps |-> FALSE,
   side |-> [q \in SubQueues |-> NoSide]]

\* The fields of a ServiceBusMessage that createMessageFromDeadletter can set.
MessageFields ==
  {"body", "contentType", "correlationId", "subject", "messageId", "partitionKey", "replyTo",
   "replyToSessionId", "sessionId", "timeToLive", "applicationProperties"}

\* A purge (completeMessages) or a dead-letter transfer (transferMessages) call.
\* q: the sub-queue its receiver reads; rcv, snd: the receiver and the sender;
\* got: the batch received (purge), receivedMessages (transfer); chunk: the messages
\* spliced off for one sendMessages; todo: those of the chunk still to complete;
\* dest: the messages the destination has accepted; err: an exception is on its way out
\* through the finally; out: how the call settled; errs: its handleError notifications;
\* history: n calls made, held: the messages q held at the call, done: the messages
\* completed, sends: sendMessages calls made, empty: the last batch was empty,
\* base: the messages the destination had accepted before the call,
\* key: the entity the call was made for; others: broker, the messages the live queues of
\* the other subscriptions of the topic have received (one other subscription, whose
\* rule is the default one that matches every message),
\* prev: how the call before settled, the sub-queue it read and the messages it completed.
NoOperation ==
  [n |-> 0, kind |-> "none", q |-> "dl", pc |-> "idle", rcv |-> "none", snd |-> "none",
   got |-> <<>>, chunk |-> <<>>, todo |-> <<>>, dest |-> <<>>, err |-> FALSE, out |-> "none",
   errs |-> 0, held |-> {}, done |-> {}, sends |-> 0, empty |-> FALSE, base |-> 0,
   key |-> AnyKey, others |-> <<>>,
   prev |-> [out |-> "none", q |-> "dl", done |-> {}]]

\* The extension's storage as activate finds it on a first run.
\* secrets: the connection strings that have a 'peekabus.peek-a-bus.connection.<name>'
\* secret (a namespace is named by its connection string); connections: the records of
\* 'peekabus.peek-a-bus.state', "name" for a record without alias, "alias" for one with;
\* arrays: every favorites array a call has held or the Memento holds, id = index;
\* favorites: the array the Memento holds under 'peekabus.peek-a-bus.favorites',
\* 0 = undefined. Memento.get hands out the array it holds, Memento.update keeps a
\* JSON clone of the array it is given.
NoStore ==
  [secrets |-> {}, connections |-> [cs \in ConnStrs |-> "none"],
   arrays |-> <<>>, favorites |-> 0]

\* The topics a namespace may hold, and the listings getServiceBusInfo reads: the queue
\* listing, the topic listing and one subscription listing per topic.
TopicNames == {"t1", "t2"}
Listings == {"queues", "topics"} \cup TopicNames

\* A getServiceBusInfo call.  pc: where it stands; namespace: the getNamespaceProperties
\* call; lst: each listing, "none" until its first page is asked for; pages: the pages
\* read of each; found: the topics the topic listing has returned; out: how the call
\* settled; errs: its handleError notifications.
NoInfo ==
  [pc |-> "idle", namespace |-> "none", lst |-> [l \in Listings |-> "none"],
   pages |-> [l \in Listings |-> 0], found |-> {}, out |-> "none", errs |-> 0]

\* The value thrown when nothing is thrown.
NoError == [isError |-> FALSE, includes |-> {}]

\* A user operation: op, the command; frames, the functions still on the call stack,
\* innermost first; pc, where it stands; err, the value thrown by the broker call;
\* input, the connection string typed in; shown, the messages of the
\* vscode.window.showErrorMessage calls made for it; logged, its console.error
\* diagnostics; reported, the functions whose catch called ErrorHandler.handleError;
\* rejected, the functions that rejected to their caller; failed, the exported
\* operation whose broker call failed; out, how the command settled.
NoUi ==
  [op |-> "none", frames |-> <<>>, pc |-> "idle", err |-> NoError, input |-> "none",
   shown |-> <<>>, logged |-> 0, reported |-> {}, rejected |-> {}, failed |-> "none",
   out |-> "none"]

\* How a call ended, as far as the claims tell calls apart.
Result(op, out, restart) ==
  IF out = "started" /\ restart THEN "restarted"
  ELSE IF out = "stopped" /\ op = "errorHandler" THEN "errorStopped"
  ELSE out

\* iconPath of an item that is not shown as monitored: ThemeIcon('database') for a
\* queue, ThemeIcon('account') for a subscription.
RestingIcon(k) == IF EntityType(k[2]) = "queue" THEN "database" ELSE "account"

Init ==
  /\ clients = [cs \in ConnStrs |-> 0]
  /\ adminClients = [cs \in ConnStrs |-> 0]
  /\ clientObjs = <<>>
  /\ adminCount = 0
  /\ activeMonitors = [k \in Keys |-> 0]
  /\ receivers = <<>>
  /\ sessionEntities \in SUBSET Entities
  /\ subq = [q \in SubQueues |-> <<>>]
  /\ ret = NoRetrieval
  /\ opn = NoOperation
  /\ info = NoInfo
  /\ ui = NoUi
  /\ store = NoStore
  /\ icons = [k \in Keys |-> RestingIcon(k)]
  /\ messages = [m \in Messages |-> NoMessage]
  /\ tasks = EmptyBag
  /\ last = "none"

\* ------------------------------------------------- ServiceBusClientManager

\* A cache that does not look the connection string up first.
ClientsAlwaysNew(cs) == [clients EXCEPT ![cs] = Len(clientObjs) + 1]

\* getClient: if (!this.clients.has(cs)) this.clients.set(cs, new ServiceBusClient(cs))
ClientsAfterGet(cs) ==
  IF clients[cs] # 0 THEN clients ELSE [clients EXCEPT ![cs] = Len(clientObjs) + 1]

ClientObjsAfterGet(cs) ==
  IF clients[cs] # 0 THEN clientObjs ELSE Append(clientObjs, [cs |-> cs, st |-> "open"])

\* getAdminClient: the same over adminClients
AdminClientsAfterGet(cs) ==
  IF adminClients[cs] # 0 THEN adminClients ELSE [adminClients EXCEPT ![cs] = adminCount + 1]

AdminCountAfterGet(cs) ==
  IF adminClients[cs] # 0 THEN adminCount ELSE adminCount + 1

CanGetClient(cs) == clients[cs] # 0 \/ Len(clientObjs) < MaxClients
CanGetAdminClient(cs) == adminClients[cs] # 0 \/ adminCount < MaxClients

\* ------------------------------------------------------------------- tasks

Bag1(rec) == SetToBag({rec})
Running == BagToSet(tasks)
CanBegin == BagCardinality(tasks) < MaxTasks
Others(rec) == tasks (-) Bag1(rec)

\* History for "no other call for that key is in flight": the pending call u works on key k.
Touches(u, k) ==
  \/ u.op \in {"start", "stop", "errorHandler"} /\ u.key = k
  \/ u.pc = "stopAllWait"

TouchesAny(u) == \E k \in Keys : Touches(u, k)

MarkOne(u, k) == IF Touches(u, k) THEN [u EXCEPT !.alone = FALSE] ELSE u
MarkAny(u) == IF TouchesAny(u) THEN [u EXCEPT !.alone = FALSE] ELSE u

\* The pending calls once a call on key k (on every key) has begun beside them.
Mark(k) == BagOfAll(LAMBDA u : MarkOne(u, k), tasks)
MarkAll == BagOfAll(MarkAny, tasks)

AloneOn(k) == ~(\E u \in Running : Touches(u, k))
AloneOnAll == ~(\E u \in Running : TouchesAny(u))

\* ------------------------------------------------------ receivers, clients

\* receiver.close() has been called on every receiver of rs.
CloseRequested(rs) ==
  [r \in DOMAIN receivers |->
     IF r \in rs /\ receivers[r].st = "subscribed"
     THEN [receivers[r] EXCEPT !.st = "closing"] ELSE receivers[r]]

\* A close() that resolves with the receiver still open.
ReceiverLeftOpen(r) == receivers

\* receiver.close() of r has resolved.
ReceiverClosed(r) == [receivers EXCEPT ![r].st = "closed"]

\* client.close() has been called on every client of cl.
ClientCloseRequested(cl) ==
  [c \in DOMAIN clientObjs |->
     IF c \in cl /\ clientObjs[c].st = "open"
     THEN [clientObjs[c] EXCEPT !.st = "closing"] ELSE clientObjs[c]]

\* A close() that resolves with the client still open.
ClientLeftOpen(c) == clientObjs

ClientClosed(c) == [clientObjs EXCEPT ![c].st = "closed"]

Subscribed(k) == {r \in DOMAIN receivers : receivers[r].key = k /\ receivers[r].st = "subscribed"}

isMonitoring(cs, e) == activeMonitors[MonitorKey(cs, e)] # 0

Registered == {activeMonitors[k] : k \in Keys} \ {0}

CachedClients == {clients[cs] : cs \in ConnStrs} \ {0}

\* --------------------------------------- ServiceBusClientManager, the calls

\* A caller outside the registry (a retrieval, a purge, a send) fetches the client.
GetClient(cs) ==
  /\ CanGetClient(cs)
  /\ clients' = ClientsAfterGet(cs)
  /\ clientObjs' = ClientObjsAfterGet(cs)
  /\ UNCHANGED <<adminClients, adminCount, tasks, last>>
  /\ UNCHANGED <<activeMonitors, receivers, sessionEntities, store, icons, opn, info, ui, subq, ret, messages>>

GetAdminClient(cs) ==
  /\ CanGetAdminClient(cs)
  /\ adminClients' = AdminClientsAfterGet(cs)
  /\ adminCount' = AdminCountAfterGet(cs)
  /\ UNCHANGED <<clients, clientObjs, tasks, last>>
  /\ UNCHANGED <<activeMonitors, receivers, sessionEntities, store, icons, opn, info, ui, subq, ret, messages>>

\* closeClient up to its await: const client = this.clients.get(cs); if (client) await client.close()
\* and, with no client cached, this.adminClients.delete(cs) at once.
CloseClientCall(cs) ==
  /\ CanBegin
  /\ IF clients[cs] # 0
     THEN /\ clientObjs' = ClientCloseRequested({clients[cs]})
          /\ tasks' = tasks (+) Bag1([Task("closeClient", <<cs, "orders">>) EXCEPT
                                        !.pc = "closeClientWait", !.cli = clients[cs]])
          /\ UNCHANGED adminClients
     ELSE /\ adminClients' = [adminClients EXCEPT ![cs] = 0]
          /\ UNCHANGED <<clientObjs, tasks>>
  /\ UNCHANGED <<clients, adminCount, last>>
  /\ UNCHANGED <<activeMonitors, receivers, sessionEntities, store, icons, opn, info, ui, subq, ret, messages>>

\* closeClient after its await: this.clients.delete(cs); this.adminClients.delete(cs);
\* a close() that rejects leaves both entries.
CloseClientSettle(rec, ok) ==
  LET cs == rec.key[1] IN
  /\ rec.pc = "closeClientWait"
  /\ tasks' = Others(rec)
  /\ IF ok
     THEN /\ clientObjs' = ClientClosed(rec.cli)
          /\ clients' = [clients EXCEPT ![cs] = 0]
          /\ adminClients' = [adminClients EXCEPT ![cs] = 0]
     ELSE UNCHANGED <<clientObjs, clients, adminClients>>
  /\ UNCHANGED <<adminCount, last>>
  /\ UNCHANGED <<activeMonitors, receivers, sessionEntities, store, icons, opn, info, ui, subq, ret, messages>>

\* closeAllClients up to its await: close() is called on every cached client.
CloseAllBegin(rec, rest) ==
  /\ clientObjs' = ClientCloseRequested(CachedClients)
  /\ tasks' = rest (+) Bag1([rec EXCEPT !.pc = "closeAllWait", !.pending = CachedClients])
  /\ UNCHANGED <<clients, adminClients, adminCount>>

CloseAllCall ==
  /\ CanBegin
  /\ CloseAllBegin(Task("closeAll", AnyKey), tasks)
  /\ UNCHANGED last
  /\ UNCHANGED <<activeMonitors, receivers, sessionEntities, store, icons, opn, info, ui, subq, ret, messages>>

\* One close() of the Promise.all settles; the first rejection rejects closeAllClients,
\* and this.clients.clear() is not reached.
CloseAllSettle(rec, c, ok) ==
  /\ rec.pc = "closeAllWait"
  /\ c \in rec.pending
  /\ IF ok
     THEN /\ clientObjs' = ClientClosed(c)
          /\ tasks' = Others(rec) (+) Bag1([rec EXCEPT !.pending = @ \ {c}])
     ELSE /\ tasks' = Others(rec)
          /\ UNCHANGED clientObjs
  /\ UNCHANGED <<clients, adminClients, adminCount, last>>
  /\ UNCHANGED <<activeMonitors, receivers, sessionEntities, store, icons, opn, info, ui, subq, ret, messages>>

\* Promise.all has resolved: this.clients.clear(); this.adminClients.clear()
CloseAllFinish(rec) ==
  /\ rec.pc = "closeAllWait"
  /\ rec.pending = {}
  /\ clients' = [cs \in ConnStrs |-> 0]
  /\ adminClients' = [cs \in ConnStrs |-> 0]
  /\ tasks' = Others(rec)
  /\ UNCHANGED <<clientObjs, adminCount, last>>
  /\ UNCHANGED <<activeMonitors, receivers, sessionEntities, store, icons, opn, info, ui, subq, ret, messages>>

\* ------------------------------------------------------- Monitor registry

\* A start that skips the session check.
NeverRequiresSession(k) == FALSE

\* queueProps.requiresSession || false, subscriptionProps.requiresSession || false
RequiresSession(k) == k[2] \in sessionEntities

\* client.createReceiver(...) and receiver.subscribe({processMessage, processError})
ReceiversAfterStart(k, cb) == Append(receivers, [key |-> k, cb |-> cb, st |-> "subscribed"])

\* activeMonitors.set(monitorKey, {receiver, ...})
MonitorsAfterStart(k) == [activeMonitors EXCEPT ![k] = Len(receivers) + 1]

\* A stop that forgets the delete, and one that clears the whole registry.
MonitorsKept(k) == activeMonitors
MonitorsAllRemoved(k) == [j \in Keys |-> 0]

\* activeMonitors.delete(monitorKey)
MonitorsAfterStop(k) == [activeMonitors EXCEPT ![k] = 0]

\* activeMonitors.clear()
MonitorsAfterStopAll == [k \in Keys |-> 0]

\* startMonitoring from getAdminClient to its await of getQueue / getSubscription;
\* a subscription without a topic name throws. rest: the other pending calls.
StartProceed(rec, rest) ==
  LET cs == rec.key[1]
      e == rec.key[2]
  IN /\ CanGetAdminClient(cs)
     /\ CanGetClient(cs)
     /\ adminClients' = AdminClientsAfterGet(cs)
     /\ adminCount' = AdminCountAfterGet(cs)
     /\ clients' = ClientsAfterGet(cs)
     /\ clientObjs' = ClientObjsAfterGet(cs)
     /\ IF EntityType(e) = "subscription" /\ ~rec.topic
        THEN /\ tasks' = rest
             /\ last' = Result(rec.op, "threw", FALSE)
        ELSE /\ tasks' = rest (+) Bag1([rec EXCEPT !.pc = "startProps",
                                                   !.cli = ClientsAfterGet(cs)[cs]])
             /\ UNCHANGED last

\* stopMonitoring up to its await: const monitor = activeMonitors.get(key);
\* if (monitor) await monitor.receiver.close(). With no entry it returns at once.
StopBegin(rec, pc) ==
  /\ activeMonitors[rec.key] # 0
  /\ receivers' = CloseRequested({activeMonitors[rec.key]})
  /\ tasks' = Mark(rec.key) (+) Bag1([rec EXCEPT !.pc = pc, !.mon = activeMonitors[rec.key],
                                                 !.alone = AloneOn(rec.key)])
  /\ UNCHANGED <<clients, adminClients, clientObjs, adminCount, activeMonitors, last>>

\* startMonitoring(cs, e, type, topicName), called directly and without onMessage
StartCall(cs, e, topic) ==
  LET k == MonitorKey(cs, e)
      rec == [Task("start", k) EXCEPT !.topic = topic, !.alone = AloneOn(k)]
  IN /\ CanBegin
     /\ EntityType(e) = "queue" => ~topic
     /\ IF activeMonitors[k] # 0
        THEN StopBegin(rec, "startStopClose")
        ELSE /\ StartProceed(rec, Mark(k))
             /\ UNCHANGED <<activeMonitors, receivers>>
     /\ UNCHANGED <<sessionEntities, store, icons, opn, info, ui, subq, ret, messages>>

\* The close() awaited by the stopMonitoring inside startMonitoring settles: the entry
\* is deleted and startMonitoring goes on; a rejection is rethrown by both.
StartStopSettle(rec, ok) ==
  /\ rec.pc = "startStopClose"
  /\ IF ok
     THEN /\ receivers' = ReceiverClosed(rec.mon)
          /\ activeMonitors' = MonitorsAfterStop(rec.key)
          /\ StartProceed(rec, Others(rec))
     ELSE /\ tasks' = Others(rec)
          /\ last' = Result(rec.op, "threw", FALSE)
          /\ UNCHANGED <<clients, adminClients, clientObjs, adminCount, activeMonitors, receivers>>
  /\ UNCHANGED <<sessionEntities, store, icons, opn, info, ui, subq, ret, messages>>

\* getQueue / getSubscription settles: a rejection is rethrown; an entity that requires
\* sessions gets a warning and no receiver; otherwise the receiver is created,
\* subscribed and registered. A startMonitoring that toggleMonitoring awaited (it alone
\* passes a callback) has returned: this.iconPath = new ThemeIcon('bell', ...).
StartProps(rec, ok) ==
  /\ rec.pc = "startProps"
  /\ tasks' = Others(rec)
  /\ IF ~ok
     THEN /\ last' = Result(rec.op, "threw", FALSE)
          /\ UNCHANGED <<activeMonitors, receivers>>
     ELSE IF RequiresSession(rec.key)
     THEN /\ last' = Result(rec.op, "declined", FALSE)
          /\ UNCHANGED <<activeMonitors, receivers>>
     ELSE /\ Len(receivers) < MaxReceivers
          /\ receivers' = ReceiversAfterStart(rec.key, rec.cb)
          /\ activeMonitors' = MonitorsAfterStart(rec.key)
          /\ last' = Result(rec.op, "started", rec.mon # 0 /\ rec.alone)
  /\ icons' = IF ok /\ rec.cb THEN [icons EXCEPT ![rec.key] = "bell"] ELSE icons
  /\ UNCHANGED <<clients, adminClients, clientObjs, adminCount, sessionEntities, store, opn, info, ui, subq, ret, messages>>

\* stopMonitoring(cs, e), called directly
StopCall(cs, e) ==
  LET k == MonitorKey(cs, e) IN
  /\ CanBegin
  /\ IF activeMonitors[k] # 0
     THEN StopBegin(Task("stop", k), "stopClose")
     ELSE /\ last' = Result("stop", "noop", FALSE)
          /\ UNCHANGED <<clients, adminClients, clientObjs, adminCount, activeMonitors,
                         receivers, tasks>>
  /\ UNCHANGED <<sessionEntities, store, icons, opn, info, ui, subq, ret, messages>>

\* The close() awaited by stopMonitoring settles: activeMonitors.delete(key), or the
\* rejection is reported and rethrown with the entry left in place. A stopMonitoring that
\* toggleMonitoring awaited (cb) has returned: this.iconPath = the item's resting icon.
StopSettle(rec, ok) ==
  /\ rec.pc = "stopClose"
  /\ tasks' = Others(rec)
  /\ IF ok
     THEN /\ receivers' = ReceiverClosed(rec.mon)
          /\ activeMonitors' = MonitorsAfterStop(rec.key)
          /\ last' = Result(rec.op, "stopped", FALSE)
     ELSE /\ last' = Result(rec.op, "threw", FALSE)
          /\ UNCHANGED <<activeMonitors, receivers>>
  /\ icons' = IF ok /\ rec.cb THEN [icons EXCEPT ![rec.key] = RestingIcon(rec.key)] ELSE icons
  /\ UNCHANGED <<clients, adminClients, clientObjs, adminCount, sessionEntities, store, opn, info, ui, subq, ret, messages>>

\* QueueItem / SubscriptionItem.toggleMonitoring: isMonitoring ? stopMonitoring : startMonitoring;
\* the item passes its own topic name and a refresh callback.
ToggleMonitoring(cs, e) ==
  LET k == MonitorKey(cs, e)
      rec == [Task("start", k) EXCEPT !.topic = (EntityType(e) = "subscription"),
                                      !.cb = TRUE, !.alone = AloneOn(k)]
  IN /\ CanBegin
     /\ IF isMonitoring(cs, e)
        THEN StopBegin([Task("stop", k) EXCEPT !.cb = TRUE], "stopClose")
        ELSE /\ StartProceed(rec, Mark(k))
             /\ UNCHANGED <<activeMonitors, receivers>>
     /\ UNCHANGED <<sessionEntities, store, icons, opn, info, ui, subq, ret, messages>>

\* processError of receiver r: the error handler shows the error and awaits
\* stopMonitoring(cs, e) for the key r was created for.
ErrorHandlerFires(r) ==
  LET k == receivers[r].key IN
  /\ receivers[r].st \in {"subscribed", "closing"}
  /\ CanBegin
  /\ IF activeMonitors[k] # 0
     THEN StopBegin(Task("errorHandler", k), "stopClose")
     ELSE UNCHANGED <<clients, adminClients, clientObjs, adminCount, activeMonitors,
                     receivers, tasks, last>>
  /\ UNCHANGED <<sessionEntities, store, icons, opn, info, ui, subq, ret, messages>>

\* stopAllMonitoring up to its await: close() is called on every registered receiver.
StopAllBegin(op) ==
  /\ CanBegin
  /\ receivers' = CloseRequested(Registered)
  /\ tasks' = MarkAll (+) Bag1([Task(op, AnyKey) EXCEPT !.pc = "stopAllWait",
                                  !.pending = Registered, !.alone = AloneOnAll])
  /\ UNCHANGED <<clients, adminClients, clientObjs, adminCount, activeMonitors, last>>
  /\ UNCHANGED <<sessionEntities, store, icons, opn, info, ui, subq, ret, messages>>

StopAllCall == StopAllBegin("stopAll")

\* deactivate: await stopAllMonitoring(); await closeAllClients()
Deactivate == StopAllBegin("deactivate")

\* One close() of the Promise.all settles; the first rejection rejects stopAllMonitoring
\* (and deactivate), and activeMonitors.clear() is not reached.
StopAllSettle(rec, r, ok) ==
  /\ rec.pc = "stopAllWait"
  /\ r \in rec.pending
  /\ IF ok
     THEN /\ receivers' = ReceiverClosed(r)
          /\ tasks' = Others(rec) (+) Bag1([rec EXCEPT !.pending = @ \ {r}])
          /\ UNCHANGED last
     ELSE /\ tasks' = Others(rec)
          /\ last' = Result(rec.op, "threw", FALSE)
          /\ UNCHANGED receivers
  /\ UNCHANGED <<clients, adminClients, clientObjs, adminCount, activeMonitors>>
  /\ UNCHANGED <<sessionEntities, store, icons, opn, info, ui, subq, ret, messages>>

\* Promise.all has resolved: activeMonitors.clear(); deactivate goes on to closeAllClients.
StopAllFinish(rec) ==
  /\ rec.pc = "stopAllWait"
  /\ rec.pending = {}
  /\ activeMonitors' = MonitorsAfterStopAll
  /\ last' = Result(rec.op, "cleared", FALSE)
  /\ IF rec.op = "deactivate"
     THEN CloseAllBegin(rec, Others(rec))
     ELSE /\ tasks' = Others(rec)
          /\ UNCHANGED <<clients, adminClients, clientObjs, adminCount>>
  /\ UNCHANGED <<receivers, sessionEntities, store, icons, opn, info, ui, subq, ret, messages>>

NextMonitors ==
  \/ \E k \in Topology, topic \in BOOLEAN : StartCall(k[1], k[2], topic)
  \/ \E rec \in Running, ok \in BOOLEAN : StartStopSettle(rec, ok)
  \/ \E rec \in Running, ok \in BOOLEAN : StartProps(rec, ok)
  \/ \E k \in Topology : StopCall(k[1], k[2])
  \/ \E rec \in Running, ok \in BOOLEAN : StopSettle(rec, ok)
  \/ \E k \in Topology : ToggleMonitoring(k[1], k[2])
  \/ \E r \in DOMAIN receivers : ErrorHandlerFires(r)
  \/ StopAllCall
  \/ \E rec \in Running : \E r \in rec.pending, ok \in BOOLEAN : StopAllSettle(rec, r, ok)
  \/ \E rec \in Running : StopAllFinish(rec)

NextClients ==
  \/ \E cs \in ConnStrs : GetClient(cs)
  \/ \E cs \in ConnStrs : GetAdminClient(cs)
  \/ \E cs \in ConnStrs : CloseClientCall(cs)
  \/ \E rec \in Running, ok \in BOOLEAN : CloseClientSettle(rec, ok)
  \/ CloseAllCall
  \/ \E rec \in Running : \E c \in rec.pending, ok \in BOOLEAN : CloseAllSettle(rec, c, ok)
  \/ \E rec \in Running : CloseAllFinish(rec)

\* ------------------------------------------------- messages of the broker

\* A producer sends message m to the entity of key k.
MessageArrives(m, k) ==
  /\ messages[m].st = "absent"
  /\ messages' = [messages EXCEPT ![m] = [NoMessage EXCEPT !.key = k, !.st = "available"]]
  /\ UNCHANGED <<clients, adminClients, clientObjs, adminCount, activeMonitors, receivers,
                 sessionEntities, store, icons, opn, info, ui, subq, ret, tasks, last>>

\* messageHandler up to its await: the notification, onMessage(message) when a callback
\* was given, then receiver.abandonMessage(message) is called. The delivery that
\* invoked it has raised the message's deliveryCount by one.
Handled(msg, r) ==
  [msg EXCEPT !.st = "abandoning", !.by = r, !.dc = @ + 1,
              !.cb = IF receivers[r].cb THEN @ + 1 ELSE @]

\* The broker locks an available message for a subscribed receiver of its entity and
\* hands it to processMessage.
Deliver(m, r) ==
  /\ messages[m].st = "available"
  /\ receivers[r].st = "subscribed"
  /\ receivers[r].key = messages[m].key
  /\ messages' = [messages EXCEPT ![m] = Handled(messages[m], r)]
  /\ UNCHANGED <<clients, adminClients, clientObjs, adminCount, activeMonitors, receivers,
                 sessionEntities, store, icons, opn, info, ui, subq, ret, tasks, last>>

\* The broker gets a message back (abandoned, or its lock expired): it is available
\* again, or dead-lettered once it has been delivered maxDeliveryCount times.
Released(msg) ==
  [msg EXCEPT !.st = IF msg.dc >= MaxDeliveryCount THEN "deadLettered" ELSE "available",
              !.by = 0]

\* abandonMessage settles. A rejection is caught and logged, and the handler returns
\* normally with the message not settled.
AfterAbandon(msg, ok) ==
  IF ok THEN Released(msg) ELSE [msg EXCEPT !.st = "unsettled"]

AbandonSettle(m, ok) ==
  /\ messages[m].st = "abandoning"
  /\ messages' = [messages EXCEPT ![m] = AfterAbandon(messages[m], ok)]
  /\ UNCHANGED <<clients, adminClients, clientObjs, adminCount, activeMonitors, receivers,
                 sessionEntities, store, icons, opn, info, ui, subq, ret, tasks, last>>

\* receiver.subscribe(handlers) is called without options, so autoCompleteMessages has
\* its default, true: when processMessage returns and the message is not settled, the
\* library calls completeMessage on it. That settles (the message is removed) or
\* fails (the lock stays until it expires).
AfterAutoComplete(msg, ok) ==
  IF ok THEN [msg EXCEPT !.st = "completed", !.by = 0] ELSE [msg EXCEPT !.st = "locked"]

AutoComplete(m, ok) ==
  /\ messages[m].st = "unsettled"
  /\ messages' = [messages EXCEPT ![m] = AfterAutoComplete(messages[m], ok)]
  /\ UNCHANGED <<clients, adminClients, clientObjs, adminCount, activeMonitors, receivers,
                 sessionEntities, store, icons, opn, info, ui, subq, ret, tasks, last>>

\* The broker releases a lock that was not settled in time.
LockExpires(m) ==
  /\ messages[m].st = "locked"
  /\ messages' = [messages EXCEPT ![m] = Released(messages[m])]
  /\ UNCHANGED <<clients, adminClients, clientObjs, adminCount, activeMonitors, receivers,
                 sessionEntities, store, icons, opn, info, ui, subq, ret, tasks, last>>

\* The message is in the live entity: a peek or a receive on the entity finds it.
InLiveEntity(m) == messages[m].st \in {"available", "abandoning", "unsettled", "locked"}

NextMessages ==
  \/ \E m \in Messages : \E k \in Keys : MessageArrives(m, k)
  \/ \E m \in Messages : \E r \in DOMAIN receivers : Deliver(m, r)
  \/ \E m \in Messages : \E ok \in BOOLEAN : AbandonSettle(m, ok)
  \/ \E m \in Messages : \E ok \in BOOLEAN : AutoComplete(m, ok)
  \/ \E m \in Messages : LockExpires(m)

\* The monitoring calls, each made while no other call is pending.
NextOneCall ==
  \/ \E k \in Topology : \E topic \in BOOLEAN : tasks = EmptyBag /\ StartCall(k[1], k[2], topic)
  \/ \E k \in Topology : tasks = EmptyBag /\ StopCall(k[1], k[2])
  \/ \E k \in Topology : tasks = EmptyBag /\ ToggleMonitoring(k[1], k[2])
  \/ \E r \in DOMAIN receivers : tasks = EmptyBag /\ ErrorHandlerFires(r)

NextSettle ==
  \/ \E rec \in Running : \E ok \in BOOLEAN : StartStopSettle(rec, ok)
  \/ \E rec \in Running : \E ok \in BOOLEAN : StartProps(rec, ok)
  \/ \E rec \in Running : \E ok \in BOOLEAN : StopSettle(rec, ok)

NextDelivery == NextMessages \/ NextOneCall \/ NextSettle

\* -------------------------------------------------------------- retrieval
\* peekQueueMessages / peekSubscriptionMessages and the two retrieval functions.

Min(a, b) == IF a < b THEN a ELSE b

\* Math.ceil(amount / 10) + 5, for the whole amounts the callers pass
MaxBatches(amount) == (amount + ReceiveBatchSize - 1) \div ReceiveBatchSize + 5

\* The message object a receiver hands to the program.
Received(m) == [seq |-> m.seq, id |-> m.id, dc |-> m.dc]

\* messageIds.has(msgId)
HasId(all, id) == \E i \in DOMAIN all : all[i].id = id

\* A loop that keeps every message of a batch.
CollectEvery(all, batch) == all \o batch

\* The inner loop of both retrieval functions over one batch:
\* msgId = message.messageId?.toString() || ''; if (msgId && !messageIds.has(msgId)) push
RECURSIVE Collect(_, _)
Collect(all, batch) ==
  IF batch = <<>> THEN all
  ELSE LET message == Head(batch)
       IN Collect(IF message.id # "" /\ ~HasId(all, message.id) THEN Append(all, message) ELSE all,
                  Tail(batch))

\* A loop without the batch ceiling.
LoopWithoutCeiling(all, amount, batchCount) == Len(all) < amount

\* while (allMessages.length < amount && batchCount < maxBatches)
LoopContinues(all, amount, batchCount) == Len(all) < amount /\ batchCount < MaxBatches(amount)

\* The messages sub-queue q holds, by sequence number.
Held(q) == {subq[q][i].seq : i \in DOMAIN subq[q]}

\* A side that creates a receiver whatever the amount.
SideAlwaysStarted(q, amount, receive) ==
  [NoSide EXCEPT !.amount = amount, !.held = Held(q), !.rcv = "open",
                 !.pc = IF receive THEN "receiving" ELSE "peeking"]

\* amount > 0 ? peekFn(client.createReceiver(...), amount) : Promise.resolve([])
\* peekFn runs up to its first await: the receiveMessages call, or the peekMessages calls.
SideStarted(q, amount, receive) ==
  IF amount > 0
  THEN [NoSide EXCEPT !.amount = amount, !.held = Held(q), !.rcv = "open",
                      !.pc = IF receive THEN "receiving" ELSE "peeking"]
  ELSE [NoSide EXCEPT !.pc = "skipped"]

\* What the awaiting Promise.all and the catch block of the retrieval do when side q
\* becomes s: reject on the first failed side (handleError, throw), resolve when both
\* sides have resolved.
AfterSide(q, s) ==
  LET sides == [ret.side EXCEPT ![q] = s]
      out == IF ret.out # "pending" THEN ret.out
             ELSE IF s.pc = "failed" THEN "rejected"
             ELSE IF \A p \in SubQueues : sides[p].pc \in {"done", "skipped"} THEN "resolved"
             ELSE "pending"
  IN [ret EXCEPT !.side = sides, !.out = out,
                 !.errs = IF ret.out = "pending" /\ out = "rejected" THEN @ + 1 ELSE @]

\* finally { await receiver.close() }: the close call is made.
Closing(s) == [s EXCEPT !.pc = "closing", !.rcv = "closing"]

Queued == Len(subq["live"]) + Len(subq["dl"])

\* A producer sends a message to the entity (or an earlier delivery dead-lettered one),
\* before the retrieval is called.
Enqueue(q, id) ==
  /\ ret.n = 0
  /\ opn.n = 0
  /\ Queued < MaxQueued
  /\ subq' = [subq EXCEPT ![q] = Append(@, [seq |-> Queued + 1, id |-> id, dc |-> 0, lk |-> FALSE])]
  /\ UNCHANGED <<clients, adminClients, clientObjs, adminCount, activeMonitors, receivers,
                 sessionEntities, store, icons, opn, info, ui, ret, messages, tasks, last>>

\* peekQueueMessages(cs, queue, amount, dlAmount, useReceiveMode) and
\* peekSubscriptionMessages(cs, topic, subscription, amount, dlAmount, useReceiveMode),
\* up to the await of Promise.all.
RetrieveCall(k, amount, dlAmount, receive) ==
  /\ ret.n < MaxRetrievals
  /\ ret.out # "pending"
  /\ IF amount < 1 /\ dlAmount < 1
     THEN /\ ret' = [NoRetrieval EXCEPT !.n = ret.n + 1, !.receive = receive, !.out = "resolved",
                                        !.side = [q \in SubQueues |-> [NoSide EXCEPT !.pc = "skipped"]]]
          /\ UNCHANGED <<clients, clientObjs>>
     ELSE /\ CanGetClient(k[1])
          /\ clients' = ClientsAfterGet(k[1])
          /\ clientObjs' = ClientObjsAfterGet(k[1])
          /\ ret' = [NoRetrieval EXCEPT !.n = ret.n + 1, !.receive = receive, !.out = "pending",
                                        !.side = [q \in SubQueues |->
                                                    SideStarted(q, IF q = "live" THEN amount ELSE dlAmount,
                                                                receive)]]
  /\ UNCHANGED <<adminClients, adminCount, activeMonitors, receivers, sessionEntities, store, icons, opn, info, ui, subq,
                 messages, tasks, last>>

\* What one receiver.peekMessages(amount) call returns: up to amount messages from
\* wherever the broker's read position c stands (the partition read, the position
\* earlier peeks of the receiver left); nothing is locked.
Window(q, c, amount) ==
  LET w == SubSeq(subq[q], c + 1, Min(c + amount, Len(subq[q])))
  IN [i \in DOMAIN w |-> Received(w[i])]

\* The broker locks the messages of a batch and counts the delivery.
Locked(q, seqs) ==
  [subq EXCEPT ![q] = [i \in DOMAIN @ |-> IF @[i].seq \in seqs
                                          THEN [@[i] EXCEPT !.lk = TRUE, !.dc = @ + 1]
                                          ELSE @[i]]]

\* A read that locks what it returns, as receiveMessages does.
PeekedWithLock(q, c, amount) == Locked(q, {Window(q, c, amount)[i].seq : i \in DOMAIN Window(q, c, amount)})

\* The sub-queues after receiver.peekMessages(amount): a look, nothing locked or counted.
Peeked(q, c, amount) == subq

\* The batch a failed peekMessages call contributes: .catch(err => { ...; return [] })
FailedPeekRejects(s) == [s EXCEPT !.err = TRUE]
FailedPeekBatch(s) == s

\* The peekMessages calls are all made at once; the batches are folded in the order of
\* the calls once all have settled.  The model settles them in that order and folds as it
\* goes; the sides' settlements touch disjoint state, so those of the dead-letter side are
\* taken after those of the live side.
PeekLands(q, ok, c) ==
  LET s == ret.side[q]
      t == [(IF ok THEN s ELSE FailedPeekBatch(s))
              EXCEPT !.landed = @ + 1,
                     !.all = IF ok THEN Collect(@, Window(q, c, s.amount)) ELSE @]
  IN /\ s.pc = "peeking"
     /\ q = "dl" => ret.side["live"].pc # "peeking"
     /\ c \in 0..Len(subq[q])
     /\ ok \/ c = 0
     /\ ret' = [ret EXCEPT !.side[q] = IF t.landed = iterations \/ t.err THEN Closing(t) ELSE t,
                            !.pf = @ \/ ~ok,
                            !.ps = @ \/ ok]
     /\ subq' = IF ok THEN Peeked(q, c, s.amount) ELSE subq
     /\ UNCHANGED <<clients, adminClients, clientObjs, adminCount, activeMonitors, receivers,
                    sessionEntities, store, icons, opn, info, ui, messages, tasks, last>>

\* The messages of sub-queue q no receiver holds a lock on, oldest first.
Available(q) == SelectSeq(subq[q], LAMBDA m : ~m.lk)

\* const batch = await receiver.receiveMessages(10, ...) settles with the first n
\* available messages (none only when none is available), or fails.
ReceiveSettles(q, ok, n) ==
  LET s == ret.side[q]
      seqs == {Available(q)[i].seq : i \in 1..n}
      after == Locked(q, seqs)
      batch == [i \in 1..n |-> Received(SelectSeq(after[q], LAMBDA m : m.seq \in seqs)[i])]
      t == [s EXCEPT !.batchCount = @ + 1, !.all = Collect(@, batch), !.pend = seqs]
  IN /\ s.pc = "receiving"
     /\ n \in 0..Min(ReceiveBatchSize, Len(Available(q)))
     /\ IF ok THEN (n = 0) = (Available(q) = <<>>) ELSE n = 0
     /\ IF ~ok
        THEN /\ ret' = [ret EXCEPT !.side[q] = Closing([s EXCEPT !.err = TRUE])]
             /\ subq' = subq
        ELSE /\ ret' = [ret EXCEPT !.side[q] = IF n = 0 THEN Closing(t)
                                               ELSE [t EXCEPT !.pc = "abandoning"]]
             /\ subq' = after
     /\ UNCHANGED <<clients, adminClients, clientObjs, adminCount, activeMonitors, receivers,
                    sessionEntities, store, icons, opn, info, ui, messages, tasks, last>>

\* The broker releases an abandoned message; one of the live sub-queue that has used up
\* its deliveries moves to the dead-letter sub-queue.
Abandoned(q, seq) ==
  LET m == SelectSeq(subq[q], LAMBDA x : x.seq = seq)[1]
      rest == SelectSeq(subq[q], LAMBDA x : x.seq # seq)
  IN IF q = "live" /\ m.dc >= MaxDeliveryCount
     THEN [live |-> rest, dl |-> Append(subq["dl"], [m EXCEPT !.lk = FALSE])]
     ELSE [subq EXCEPT ![q] = [i \in DOMAIN @ |-> IF @[i].seq = seq THEN [@[i] EXCEPT !.lk = FALSE]
                                                                    ELSE @[i]]]

\* One receiver.abandonMessage(message) of the batch settles.  await Promise.all(
\* abandonPromises) goes on when the last has resolved and rejects on the first failure;
\* the other calls stay in flight.
AbandonSettles(q, seq, ok) ==
  LET s == ret.side[q]
      t == [s EXCEPT !.pend = @ \ {seq}]
  IN /\ seq \in s.pend
     /\ subq' = IF ok THEN Abandoned(q, seq) ELSE subq
     /\ ret' = [ret EXCEPT !.side[q] =
                  IF s.pc # "abandoning" THEN t
                  ELSE IF ~ok THEN Closing([t EXCEPT !.err = TRUE])
                  ELSE IF t.pend # {} THEN t
                  ELSE IF LoopContinues(t.all, t.amount, t.batchCount)
                       THEN [t EXCEPT !.pc = "receiving"]
                       ELSE Closing(t)]
     /\ UNCHANGED <<clients, adminClients, clientObjs, adminCount, activeMonitors, receivers,
                    sessionEntities, store, icons, opn, info, ui, messages, tasks, last>>

\* await receiver.close() settles and the retrieval function settles with it: with
\* allMessages, or with the exception on its way out or the one close() threw.
CloseSettles(q, ok) ==
  LET s == ret.side[q]
      t == [s EXCEPT !.rcv = IF ok THEN "closed" ELSE "closeFailed",
                     !.pc = IF ok /\ ~s.err THEN "done" ELSE "failed"]
  IN /\ s.pc = "closing"
     /\ ret' = AfterSide(q, t)
     /\ UNCHANGED <<clients, adminClients, clientObjs, adminCount, activeMonitors, receivers,
                    sessionEntities, store, icons, opn, info, ui, subq, messages, tasks, last>>

\* Retrievals in peek mode (useReceiveMode = false).
NextPeek ==
  \/ \E q \in SubQueues, id \in MessageIds : Enqueue(q, id)
  \/ \E k \in Keys, amount \in Amounts, dlAmount \in Amounts : RetrieveCall(k, amount, dlAmount, FALSE)
  \/ \E q \in SubQueues, ok \in BOOLEAN, c \in 0..MaxQueued : PeekLands(q, ok, c)
  \/ \E q \in SubQueues, ok \in BOOLEAN : CloseSettles(q, ok)

\* Retrievals in receive mode (useReceiveMode = true, the default).
NextReceive ==
  \/ \E q \in SubQueues, id \in MessageIds : Enqueue(q, id)
  \/ \E k \in Keys, amount \in Amounts, dlAmount \in Amounts : RetrieveCall(k, amount, dlAmount, TRUE)
  \/ \E q \in SubQueues, ok \in BOOLEAN, n \in 0..ReceiveBatchSize : ReceiveSettles(q, ok, n)
  \/ \E q \in SubQueues, seq \in 1..MaxQueued, ok \in BOOLEAN : AbandonSettles(q, seq, ok)
  \/ \E q \in SubQueues, ok \in BOOLEAN : CloseSettles(q, ok)

NextRetrieval == NextPeek \/ NextReceive

\* -------------------------------------------------------------- purge and transfer
\* purgeQueueMessages, purgeQueueDeadLetter, purgeSubscriptionMessages,
\* purgeSubscriptionDeadletter (completeMessages) and transferQueueDl,
\* transferSubscriptionDl (receiveAllMessages, transferMessages).

\* An earlier producer left more messages than one chunk in sub-queue q.
StoreBacklog(q) ==
  /\ ret.n = 0
  /\ opn.n = 0
  /\ Queued = 0
  /\ subq' = [subq EXCEPT ![q] = [i \in 1..Backlog |->
                                    [seq |-> i, id |-> IF i % 2 = 1 THEN "a" ELSE "b",
                                     dc |-> 0, lk |-> FALSE]]]
  /\ UNCHANGED <<clients, adminClients, clientObjs, adminCount, activeMonitors, receivers,
                 sessionEntities, store, icons, opn, info, ui, ret, messages, tasks, last>>

\* A copy that leaves the application properties behind.
createMessageWithoutProperties(message) ==
  [from |-> message.seq, fields |-> MessageFields \ {"applicationProperties"}]

\* createMessageFromDeadletter(message): the new message, by the message it was built
\* from and the fields it carries over from it.
createMessageFromDeadletter(message) ==
  [from |-> message.seq,
   fields |-> {"body", "contentType", "correlationId", "subject", "messageId", "partitionKey",
               "replyTo", "replyToSessionId", "sessionId", "timeToLive", "applicationProperties"}]

\* The call settles: catch (error) { ErrorHandler.handleError(...); throw error }, or it
\* returns.
Settled(o, failed) ==
  [o EXCEPT !.pc = "idle", !.out = IF failed THEN "rejected" ELSE "resolved",
            !.errs = IF failed THEN @ + 1 ELSE @]

\* finally { await receiver.close() ... }: the receiver's close call is made.
Finally(o) == [o EXCEPT !.pc = "closeRcv", !.rcv = "closing"]

\* A transfer that completes a chunk's messages while its sendMessages is in flight.
CompletionsBeforeSend(o) == [o EXCEPT !.pc = "complete"]

\* The chunk's sendMessages is awaited before the first completeMessage.
AwaitSend(o) == o

\* const messages = receivedMessages.splice(0, 10); messagesToSend = messages.map(...);
\* sender.sendMessages(messagesToSend) is called.
NextChunk(o) ==
  LET n == Min(ChunkSize, Len(o.got))
  IN AwaitSend([o EXCEPT !.chunk = SubSeq(o.got, 1, n), !.todo = SubSeq(o.got, 1, n),
                         !.got = SubSeq(o.got, n + 1, Len(o.got)), !.sends = @ + 1,
                         !.pc = "send"])

\* while (receivedMessages.length > 0) { ... } finally
ChunkOrFinally(o) == IF o.got # <<>> THEN NextChunk(o) ELSE Finally(o)

OperationCall(k, kind, q) ==
  /\ opn.n < MaxOperations
  /\ opn.pc = "idle"
  /\ CanGetClient(k[1])
  /\ clients' = ClientsAfterGet(k[1])
  /\ clientObjs' = ClientObjsAfterGet(k[1])
  /\ opn' = [NoOperation EXCEPT !.n = opn.n + 1, !.kind = kind, !.q = q, !.pc = "drain",
                                !.rcv = "open",
                                !.snd = IF kind = "transfer" THEN "open" ELSE "none",
                                !.dest = opn.dest, !.base = Len(opn.dest), !.held = Held(q),
                                !.key = k, !.others = opn.others,
                                !.out = "pending",
                                !.prev = [out |-> opn.out, q |-> opn.q, done |-> opn.done]]
  /\ UNCHANGED <<adminClients, adminCount, activeMonitors, receivers, sessionEntities, store, icons, info, ui,
                 subq, ret, messages, tasks, last>>

\* purgeQueueMessages / purgeSubscriptionMessages (q = "live") and purgeQueueDeadLetter /
\* purgeSubscriptionDeadletter (q = "dl"), up to the first await of completeMessages.
PurgeCall(k, q) == OperationCall(k, "purge", q)

\* transferQueueDl / transferSubscriptionDl, up to the first await of receiveAllMessages.
TransferCall(k) == OperationCall(k, "transfer", "dl")

\* messages = await receiver.receiveMessages(10, { maxWaitTimeInMs: 150 }) settles with
\* the first n available messages (none only when none is available), or fails.
\* completeMessages goes on to complete the batch, or leaves its loop on an empty one;
\* receiveAllMessages appends the batch and receives again, or returns on an empty one.
DrainSettles(ok, n) ==
  LET q == opn.q
      seqs == {Available(q)[i].seq : i \in 1..n}
      after == Locked(q, seqs)
      batch == [i \in 1..n |-> Received(SelectSeq(after[q], LAMBDA m : m.seq \in seqs)[i])]
  IN /\ opn.pc = "drain"
     /\ n \in 0..Min(DrainBatchSize, Len(Available(q)))
     /\ IF ok THEN (n = 0) = (Available(q) = <<>>) ELSE n = 0
     /\ IF ~ok
        THEN /\ opn' = Finally([opn EXCEPT !.err = TRUE])
             /\ subq' = subq
        ELSE /\ subq' = after
             /\ opn' = IF opn.kind = "purge"
                       THEN IF n = 0 THEN Finally([opn EXCEPT !.empty = TRUE])
                            ELSE [opn EXCEPT !.got = batch, !.todo = batch, !.empty = FALSE,
                                             !.pc = "complete"]
                       ELSE IF n = 0 THEN ChunkOrFinally([opn EXCEPT !.empty = TRUE])
                            ELSE [opn EXCEPT !.got = @ \o batch, !.empty = FALSE]
     /\ UNCHANGED <<clients, adminClients, clientObjs, adminCount, activeMonitors, receivers,
                    sessionEntities, store, icons, info, ui, ret, messages, tasks, last>>

\* What the other subscriptions of the topic receive when the sender of a transfer made
\* for entity k sends the copies of chunk: transferQueueDl sends to the queue itself,
\* transferSubscriptionDl to the topic (client.createSender(topic)), which hands a copy
\* of every message to each of its subscriptions.
Published(k, chunk) ==
  IF EntityType(k[2]) = "subscription"
  THEN [i \in DOMAIN chunk |-> createMessageFromDeadletter(chunk[i])]
  ELSE <<>>

\* A transfer that sends a rejected chunk again.
SendRetried(o) == [o EXCEPT !.sends = @ + 1]

\* sendMessages rejects: nothing catches it inside transferMessages, the exception leaves
\* the while loop for the finally block.
SendFailed(o) == Finally([o EXCEPT !.err = TRUE])

\* await sender.sendMessages(messagesToSend) settles: the destination has accepted the
\* chunk's copies and the first completeMessage is called, or the call fails.
SendSettles(ok) ==
  /\ opn.pc = "send"
  /\ opn' = IF ok
            THEN [opn EXCEPT !.dest = @ \o [i \in DOMAIN opn.chunk |->
                                              createMessageFromDeadletter(opn.chunk[i])],
                             !.others = @ \o Published(opn.key, opn.chunk),
                             !.pc = "complete"]
            ELSE SendFailed(opn)
  /\ UNCHANGED <<clients, adminClients, clientObjs, adminCount, activeMonitors, receivers,
                 sessionEntities, store, icons, info, ui, subq, ret, messages, tasks, last>>

\* The dead-lettered messages whose copies the destination has accepted in this call.
Accepted == {opn.dest[i].from : i \in (opn.base + 1)..Len(opn.dest)}

\* A purge that stops after its first batch.
PurgeOnce(o) == [o EXCEPT !.pc = "closeRcv", !.rcv = "closing"]

\* do { ... } while (messages.length > 0): after a batch is completed, receive again.
PurgeLoop(o) == [o EXCEPT !.pc = "drain"]

\* The broker removes a completed message from its sub-queue.
Completed(q, seq) == [subq EXCEPT ![q] = SelectSeq(@, LAMBDA m : m.seq # seq)]

\* await receiver.completeMessage(message) settles for the next message of the batch or
\* chunk; after the last one the loop goes round.
CompleteSettles(ok) ==
  LET message == Head(opn.todo)
      o == [opn EXCEPT !.todo = Tail(@), !.done = @ \cup {message.seq}]
  IN /\ opn.pc = "complete"
     /\ opn.todo # <<>>
     /\ IF ~ok
        THEN /\ opn' = Finally([opn EXCEPT !.err = TRUE])
             /\ subq' = subq
        ELSE /\ subq' = Completed(opn.q, message.seq)
             /\ opn' = IF o.todo # <<>> THEN o
                       ELSE IF opn.kind = "purge" THEN PurgeLoop(o)
                       ELSE ChunkOrFinally(o)
     /\ UNCHANGED <<clients, adminClients, clientObjs, adminCount, activeMonitors, receivers,
                    sessionEntities, store, icons, info, ui, ret, messages, tasks, last>>

\* await receiver.close() settles.  completeMessages settles with it; transferMessages
\* goes on to await sender.close(), unless the receiver's close threw.
CloseReceiverSettles(ok) ==
  /\ opn.pc = "closeRcv"
  /\ opn' = IF ~ok THEN Settled([opn EXCEPT !.rcv = "closeFailed", !.err = TRUE], TRUE)
            ELSE IF opn.kind = "purge" THEN Settled([opn EXCEPT !.rcv = "closed"], opn.err)
            ELSE [opn EXCEPT !.rcv = "closed", !.pc = "closeSnd", !.snd = "closing"]
  /\ UNCHANGED <<clients, adminClients, clientObjs, adminCount, activeMonitors, receivers,
                 sessionEntities, store, icons, info, ui, subq, ret, messages, tasks, last>>

\* await sender.close() settles and transferMessages settles with it.
CloseSenderSettles(ok) ==
  /\ opn.pc = "closeSnd"
  /\ opn' = IF ok THEN Settled([opn EXCEPT !.snd = "closed"], opn.err)
            ELSE Settled([opn EXCEPT !.snd = "closeFailed", !.err = TRUE], TRUE)
  /\ UNCHANGED <<clients, adminClients, clientObjs, adminCount, activeMonitors, receivers,
                 sessionEntities, store, icons, info, ui, subq, ret, messages, tasks, last>>

\* Purges, with the producers that fill the sub-queues beforehand.
NextPurge ==
  \/ \E q \in SubQueues, id \in MessageIds : Enqueue(q, id)
  \/ \E q \in SubQueues : StoreBacklog(q)
  \/ \E k \in Keys, q \in SubQueues : PurgeCall(k, q)
  \/ \E ok \in BOOLEAN, n \in 0..DrainBatchSize : DrainSettles(ok, n)
  \/ \E ok \in BOOLEAN : CompleteSettles(ok)
  \/ \E ok \in BOOLEAN : CloseReceiverSettles(ok)

\* Dead-letter transfers, likewise.
NextTransfer ==
  \/ \E q \in SubQueues, id \in MessageIds : Enqueue(q, id)
  \/ \E q \in SubQueues : StoreBacklog(q)
  \/ \E k \in Keys : TransferCall(k)
  \/ \E ok \in BOOLEAN, n \in 0..DrainBatchSize : DrainSettles(ok, n)
  \/ \E ok \in BOOLEAN : SendSettles(ok)
  \/ \E ok \in BOOLEAN : CompleteSettles(ok)
  \/ \E ok \in BOOLEAN : CloseReceiverSettles(ok)
  \/ \E ok \in BOOLEAN : CloseSenderSettles(ok)

\* ------------------------------------------------------------------ error handling
\* ErrorHandler, the catch blocks of the exported operations of serviceBusService and
\* those of the commands that call them.

\* The substrings getErrorMessage looks for in error.message; none contains another, so
\* a message is told apart by the set of those it includes.
Signatures ==
  {"ENOTFOUND", "ETIMEDOUT", "Unauthorized", "401", "InvalidSignature", "invalid signature",
   "404", "does not exist", "429", "Too many requests", "403", "Forbidden"}

\* The values a broker call can throw: an Error, by the signatures its message includes,
\* or a value that is no Error.
Errors ==
  {[isError |-> TRUE, includes |-> s] :
     s \in {t \in SUBSET Signatures : Cardinality(t) <= MaxSignatures}} \cup {NoError}

\* error.message.includes(s)
Includes(error, s) == s \in error.includes

\* The message shown: its wording, the operation it names, and the raw error.message it
\* quotes, if any.
Message(kind, operation, text) == [kind |-> kind, operation |-> operation, text |-> text]

\* A translation that looks for "not found" before "authentication failed".
getErrorMessageNotFoundFirst(error, operation) ==
  IF error.isError
  THEN IF Includes(error, "ENOTFOUND") \/ Includes(error, "ETIMEDOUT")
       THEN Message("network", operation, {})
       ELSE IF Includes(error, "404") \/ Includes(error, "does not exist")
       THEN Message("notFound", operation, {})
       ELSE IF Includes(error, "Unauthorized") \/ Includes(error, "401")
       THEN Message("authentication", operation, {})
       ELSE IF Includes(error, "InvalidSignature") \/ Includes(error, "invalid signature")
       THEN Message("invalidSignature", operation, {})
       ELSE IF Includes(error, "429") \/ Includes(error, "Too many requests")
       THEN Message("rateLimit", operation, {})
       ELSE IF Includes(error, "403") \/ Includes(error, "Forbidden")
       THEN Message("forbidden", operation, {})
       ELSE Message("raw", operation, error.includes)
  ELSE Message("unknown", operation, {})

\* ErrorHandler.getErrorMessage(error, operation)
getErrorMessage(error, operation) ==
  IF error.isError
  THEN IF Includes(error, "ENOTFOUND") \/ Includes(error, "ETIMEDOUT")
       THEN Message("network", operation, {})
       ELSE IF Includes(error, "Unauthorized") \/ Includes(error, "401")
       THEN Message("authentication", operation, {})
       ELSE IF Includes(error, "InvalidSignature") \/ Includes(error, "invalid signature")
       THEN Message("invalidSignature", operation, {})
       ELSE IF Includes(error, "404") \/ Includes(error, "does not exist")
       THEN Message("notFound", operation, {})
       ELSE IF Includes(error, "429") \/ Includes(error, "Too many requests")
       THEN Message("rateLimit", operation, {})
       ELSE IF Includes(error, "403") \/ Includes(error, "Forbidden")
       THEN Message("forbidden", operation, {})
       ELSE Message("raw", operation, error.includes)
  ELSE Message("unknown", operation, {})

\* ErrorHandler.handleError(error, operation) in the catch of function fn:
\* showErrorMessage(getErrorMessage(error, operation)) and console.error.
handleError(u, fn) ==
  [u EXCEPT !.shown = Append(@, getErrorMessage(u.err, fn)), !.logged = @ + 1,
            !.reported = @ \cup {fn}]

\* The substrings validateConnectionString looks for; none contains another.
Markers == {"Endpoint=sb://", "SharedAccessKey=", "AccountEndpoint=", "documents.azure.com"}

\* The connection strings typed in: a blank one, or one told apart by the markers it
\* includes.
ConnectionStrings ==
  {[blank |-> TRUE, includes |-> {}]} \cup {[blank |-> FALSE, includes |-> s] : s \in SUBSET Markers}

\* ErrorHandler.validateConnectionString(connectionString): the error message, or "null".
validateConnectionString(connectionString) ==
  LET hasEndpoint == "Endpoint=sb://" \in connectionString.includes
      hasSharedAccessKey == "SharedAccessKey=" \in connectionString.includes
  IN IF connectionString.blank THEN "Connection string cannot be empty."
     ELSE IF ~hasEndpoint THEN "Invalid Service Bus connection string. Must start with Endpoint=sb://"
     ELSE IF ~hasSharedAccessKey
     THEN "Invalid Service Bus connection string. Must contain SharedAccessKey."
     ELSE IF \/ "AccountEndpoint=" \in connectionString.includes
             \/ "documents.azure.com" \in connectionString.includes
     THEN "This appears to be a Cosmos DB connection string."
     ELSE "null"

\* The exported operations of serviceBusService that call the broker.
ServiceOperations ==
  {"getServiceBusInfo", "getQueueRuntimeProperties", "getTopicCustomProperties",
   "getSubscriptionRuntimeProperties", "peekQueueMessages", "peekSubscriptionMessages",
   "purgeQueueMessages", "purgeQueueDeadLetter", "transferQueueDl",
   "purgeSubscriptionMessages", "purgeSubscriptionDeadletter", "transferSubscriptionDl",
   "sendMessage", "startMonitoring", "stopMonitoring", "stopAllMonitoring",
   "createSubscription", "deleteSubscription", "updateSubscription",
   "createSubscriptionRule", "deleteSubscriptionRule", "listSubscriptionRules"}

\* What a function does with an exception of its body.  "handleError": catch (error) {
\* ErrorHandler.handleError(error, ...); throw error }.  "none": it has no try block.
\* "handleErrorOnly": catch (error) { ErrorHandler.handleError(error, ...) }.
\* "showErrorMessage": catch (error) { vscode.window.showErrorMessage(...) }.
\* "quiet": a catch that shows nothing and does not rethrow.
Frame(fn, catch) == [fn |-> fn, catch |-> catch]

\* An exported operation's own frame: all but stopAllMonitoring wrap their body in
\* try / catch (error) { ErrorHandler.handleError(error, ...); throw error }.
ServiceFrame(fn) == Frame(fn, IF fn = "stopAllMonitoring" THEN "none" ELSE "handleError")

\* The commands and the call stack each has when its broker call is in flight, innermost
\* frame first.
Commands ==
  {"addConnection", "QueueItem.transfer", "QueueItem.purge", "QueueItem.purgeDl",
   "toggleMonitoring.start", "toggleMonitoring.stop", "startMonitoring.restart",
   "handleResendMessage", "openFavorite", "deactivate"}

CallStack(op) ==
  IF op = "addConnection"
    THEN <<ServiceFrame("getServiceBusInfo"), Frame("addConnection", "quiet")>>
  ELSE IF op = "QueueItem.transfer"
    THEN <<ServiceFrame("transferQueueDl"), Frame("QueueItem.transfer", "quiet")>>
  ELSE IF op = "QueueItem.purge"
    THEN <<ServiceFrame("purgeQueueMessages"), Frame("QueueItem.purge", "quiet")>>
  ELSE IF op = "QueueItem.purgeDl"
    THEN <<ServiceFrame("purgeQueueDeadLetter"), Frame("QueueItem.purgeDl", "quiet")>>
  ELSE IF op = "toggleMonitoring.start"
    THEN <<ServiceFrame("startMonitoring"), Frame("toggleMonitoring", "none")>>
  ELSE IF op = "toggleMonitoring.stop"
    THEN <<ServiceFrame("stopMonitoring"), Frame("toggleMonitoring", "none")>>
  ELSE IF op = "startMonitoring.restart"
    THEN <<ServiceFrame("stopMonitoring"), ServiceFrame("startMonitoring"),
           Frame("toggleMonitoring", "none")>>
  ELSE IF op = "handleResendMessage"
    THEN <<ServiceFrame("sendMessage"), Frame("handleResendMessage", "showErrorMessage")>>
  ELSE IF op = "openFavorite"
    THEN <<ServiceFrame("getQueueRuntimeProperties"), Frame("openFavorite", "handleErrorOnly")>>
  ELSE IF op = "deactivate"
    THEN <<ServiceFrame("stopAllMonitoring"), Frame("deactivate", "none")>>
  ELSE <<ServiceFrame(op)>>

\* The user runs a command, or some caller calls an exported operation; the function
\* runs up to the await of its broker call.
UserCalls(op) ==
  /\ ui.pc = "idle"
  /\ op # "addConnection"
  /\ ui' = [NoUi EXCEPT !.op = op, !.frames = CallStack(op), !.pc = "broker"]
  /\ UNCHANGED <<clients, adminClients, clientObjs, adminCount, activeMonitors, receivers,
                 sessionEntities, store, icons, opn, info, subq, ret, messages, tasks, last>>

\* addConnection: the input box returned input; validateConnectionString(input); an
\* invalid input is answered with showErrorMessage(validationError) and a return, a valid
\* one with getServiceBusInfo(input).
AddConnection(input) ==
  /\ ui.pc = "idle"
  /\ ui' = IF validateConnectionString(input) # "null"
           THEN [NoUi EXCEPT !.op = "addConnection", !.input = input, !.out = "resolved",
                             !.shown = <<Message("validation", "addConnection",
                                                 {validateConnectionString(input)})>>]
           ELSE [NoUi EXCEPT !.op = "addConnection", !.input = input,
                             !.frames = CallStack("addConnection"), !.pc = "broker"]
  /\ UNCHANGED <<clients, adminClients, clientObjs, adminCount, activeMonitors, receivers,
                 sessionEntities, store, icons, opn, info, subq, ret, messages, tasks, last>>

\* The awaited broker call settles: every function on the stack returns, or the call
\* throws error.
BrokerSettles(ok, error) ==
  /\ ui.pc = "broker"
  /\ ui' = IF ok THEN [ui EXCEPT !.pc = "idle", !.frames = <<>>, !.out = "resolved"]
           ELSE [ui EXCEPT !.pc = "unwinding", !.err = error, !.failed = Head(ui.frames).fn]
  /\ UNCHANGED <<clients, adminClients, clientObjs, adminCount, activeMonitors, receivers,
                 sessionEntities, store, icons, opn, info, subq, ret, messages, tasks, last>>

\* The exception reaches the innermost function still on the stack: its catch block
\* runs, if it has one, and the exception goes on to its caller unless the catch ends it.
Unwind ==
  LET f == Head(ui.frames)
      rest == Tail(ui.frames)
      thrown(u) == [u EXCEPT !.rejected = @ \cup {f.fn}, !.frames = rest,
                             !.pc = IF rest = <<>> THEN "idle" ELSE "unwinding",
                             !.out = IF rest = <<>> THEN "rejected" ELSE @]
      caught(u) == [u EXCEPT !.frames = <<>>, !.pc = "idle", !.out = "resolved"]
  IN /\ ui.pc = "unwinding"
     /\ ui' = IF f.catch = "handleError" THEN thrown(handleError(ui, f.fn))
              ELSE IF f.catch = "none" THEN thrown(ui)
              ELSE IF f.catch = "handleErrorOnly" THEN caught(handleError(ui, f.fn))
              ELSE IF f.catch = "showErrorMessage"
                   THEN caught([ui EXCEPT !.shown = Append(@, Message("failed", f.fn,
                                                                      ui.err.includes))])
              ELSE caught(ui)
     /\ UNCHANGED <<clients, adminClients, clientObjs, adminCount, activeMonitors, receivers,
                    sessionEntities, store, icons, opn, info, subq, ret, messages, tasks, last>>

\* Commands and calls of exported operations, one at a time, each with one broker call.
NextErrors ==
  \/ \E op \in Commands \cup ServiceOperations : UserCalls(op)
  \/ \E input \in ConnectionStrings : AddConnection(input)
  \/ \E ok \in BOOLEAN, error \in Errors : BrokerSettles(ok, error)
  \/ Unwind

\* ------------------------------------------------------------------ getServiceBusInfo

\* getServiceBusInfo(connectionString) up to its first await: getAdminClient and the
\* call of client.getNamespaceProperties().
InfoCall(cs) ==
  /\ info.pc = "idle"
  /\ \A l \in Listings : info.lst[l] # "pending"
  /\ CanGetAdminClient(cs)
  /\ adminClients' = AdminClientsAfterGet(cs)
  /\ adminCount' = AdminCountAfterGet(cs)
  /\ info' = [NoInfo EXCEPT !.pc = "namespace", !.namespace = "pending", !.out = "pending"]
  /\ UNCHANGED <<clients, clientObjs, activeMonitors, receivers, sessionEntities, store, icons, opn, ui,
                 subq, ret, messages, tasks, last>>

\* catch (error) { ErrorHandler.handleError(error, 'connecting to Service Bus'); throw error }
InfoRejected(i) == [i EXCEPT !.pc = "idle", !.out = "rejected", !.errs = @ + 1]

\* const [queueResults, topicRuntimeResults] = await Promise.all([...]) resolves once both
\* listings are read; then topicRuntimeResults.map(async topic => ...) asks for the first
\* page of every topic's subscription listing, and with no topic the object is returned.
SubscriptionsAfterBoth(i) ==
  IF i.lst["queues"] = "done" /\ i.lst["topics"] = "done"
  THEN IF i.found = {} THEN [i EXCEPT !.pc = "idle", !.out = "resolved"]
       ELSE [i EXCEPT !.pc = "subscriptions",
                      !.lst = [l \in Listings |-> IF l \in i.found THEN "pending" ELSE @[l]]]
  ELSE i

\* await Promise.all(topicRuntimeResults.map(...)) resolves once every subscription
\* listing is read, and the object is returned.
ReturnAfterSubscriptions(i) ==
  IF \A t \in i.found : i.lst[t] = "done" THEN [i EXCEPT !.pc = "idle", !.out = "resolved"]
  ELSE i

\* await client.getNamespaceProperties() settles; Promise.all([...]) calls both async
\* functions, each of which asks for the first page of its listing.
NamespaceSettles(ok) ==
  /\ info.pc = "namespace"
  /\ info' = IF ok
             THEN [info EXCEPT !.pc = "listings", !.namespace = "done",
                               !.lst["queues"] = "pending", !.lst["topics"] = "pending"]
             ELSE InfoRejected([info EXCEPT !.namespace = "failed"])
  /\ UNCHANGED <<clients, adminClients, clientObjs, adminCount, activeMonitors, receivers,
                 sessionEntities, store, icons, opn, ui, subq, ret, messages, tasks, last>>

\* for await (const page of pages): the next page of listing l arrives with the topics
\* names on it (the topic listing), and more pages follow or not; or the request fails.
\* A listing of a call that was already rejected is still read to its end.
PageArrives(l, ok, more, names) ==
  LET read == [info EXCEPT !.pages[l] = @ + 1,
                           !.found = IF l = "topics" THEN @ \cup names ELSE @,
                           !.lst[l] = IF more THEN "pending" ELSE "done"]
  IN /\ info.lst[l] = "pending"
     /\ more => info.pages[l] + 1 < MaxPages
     /\ l # "topics" => names = {}
     /\ ~ok => (~more /\ names = {})
     /\ info' = IF ~ok
                THEN IF info.out = "pending" THEN InfoRejected([info EXCEPT !.lst[l] = "failed"])
                     ELSE [info EXCEPT !.lst[l] = "failed"]
                ELSE IF more \/ info.out # "pending" THEN read
                ELSE IF l \in TopicNames THEN ReturnAfterSubscriptions(read)
                ELSE SubscriptionsAfterBoth(read)
     /\ UNCHANGED <<clients, adminClients, clientObjs, adminCount, activeMonitors, receivers,
                    sessionEntities, store, icons, opn, ui, subq, ret, messages, tasks, last>>

NextInfo ==
  \/ \E cs \in ConnStrs : InfoCall(cs)
  \/ \E ok \in BOOLEAN : NamespaceSettles(ok)
  \/ \E l \in Listings, ok \in BOOLEAN, more \in BOOLEAN, names \in SUBSET TopicNames :
       PageArrives(l, ok, more, names)

\* ----------------------------------------- ServiceBusProvider, connections

\* getChildren: const displayName = item.alias || item.name; the label of the node.
\* A namespace is named by its connection string here; an alias is no namespace's name.
Label(cs) == IF store.connections[cs] = "alias" THEN "alias of " \o cs ELSE cs

\* addConnection once getServiceBusInfo has resolved: a name already in the list gets a
\* warning; otherwise secrets.store(connection.<name>), state.update([...current,
\* {name, alias}]). The awaits of the storage calls are taken in the same step.
AddConnectionSettles(cs, alias) ==
  /\ store' = IF store.connections[cs] # "none" THEN store
              ELSE [store EXCEPT !.secrets = @ \cup {cs},
                                 !.connections[cs] = IF alias THEN "alias" ELSE "name"]
  /\ UNCHANGED <<clients, adminClients, clientObjs, adminCount, activeMonitors, receivers,
                 sessionEntities, icons, opn, info, ui, subq, ret, messages, tasks, last>>

\* removeConnection: secrets.delete(connection.<name>) and
\* state.update(current.filter(c => c.name !== serviceBusName))
Removed(cs) == [store EXCEPT !.secrets = @ \ {cs}, !.connections[cs] = "none"]

\* The command removeConnection on the node of cs, confirmed in the dialog:
\* removeConnection(node.label) up to the await of client.close() inside closeClient.
\* current.find(c => c.name === serviceBusName) finds no record for a label that is an
\* alias, and the call ends there; with the record found and no client cached,
\* closeClient deletes the admin client and the secret and the record are removed.
RemoveConnection(node) ==
  LET serviceBusName == Label(node)
      items == {c \in ConnStrs : store.connections[c] # "none" /\ c = serviceBusName}
      cs == CHOOSE c \in ConnStrs : items # {} => c \in items
  IN /\ store.connections[node] # "none"
     /\ CanBegin
     /\ IF items = {}
        THEN /\ last' = Result("removeConnection", "notFound", FALSE)
             /\ UNCHANGED <<clientObjs, adminClients, store, tasks>>
        ELSE IF cs \in store.secrets /\ clients[cs] # 0
        THEN /\ clientObjs' = ClientCloseRequested({clients[cs]})
             /\ tasks' = tasks (+) Bag1([Task("removeConnection", <<cs, "orders">>) EXCEPT
                                           !.pc = "removeClose", !.cli = clients[cs]])
             /\ UNCHANGED <<adminClients, store, last>>
        ELSE /\ adminClients' = IF cs \in store.secrets
                                THEN [adminClients EXCEPT ![cs] = 0] ELSE adminClients
             /\ store' = Removed(cs)
             /\ last' = Result("removeConnection", "removed", FALSE)
             /\ UNCHANGED <<clientObjs, tasks>>
     /\ UNCHANGED <<clients, adminCount, activeMonitors, receivers,
                    sessionEntities, icons, opn, info, ui, subq, ret, messages>>

\* The close() awaited by closeClient inside removeConnection settles: the client and the
\* admin client are evicted, the secret and the record removed; a rejection reaches the
\* catch of removeConnection, which reports it, and nothing is removed.
RemoveConnectionSettle(rec, ok) ==
  LET cs == rec.key[1] IN
  /\ rec.pc = "removeClose"
  /\ tasks' = Others(rec)
  /\ IF ok
     THEN /\ clientObjs' = ClientClosed(rec.cli)
          /\ clients' = [clients EXCEPT ![cs] = 0]
          /\ adminClients' = [adminClients EXCEPT ![cs] = 0]
          /\ store' = Removed(cs)
          /\ last' = Result(rec.op, "removed", FALSE)
     ELSE /\ last' = Result(rec.op, "reported", FALSE)
          /\ UNCHANGED <<clientObjs, clients, adminClients, store>>
  /\ UNCHANGED <<adminCount, activeMonitors, receivers,
                 sessionEntities, icons, opn, info, ui, subq, ret, messages>>

\* The tree shows the items of a connection that is in the list.
NextConnections ==
  \/ \E cs \in ConnStrs, alias \in BOOLEAN : AddConnectionSettles(cs, alias)
  \/ \E k \in Topology : store.connections[k[1]] # "none" /\ ToggleMonitoring(k[1], k[2])
  \/ \E rec \in Running, ok \in BOOLEAN : StartProps(rec, ok)
  \/ \E rec \in Running, ok \in BOOLEAN : StopSettle(rec, ok)
  \/ \E cs \in ConnStrs : RemoveConnection(cs)
  \/ \E rec \in Running, ok \in BOOLEAN : RemoveConnectionSettle(rec, ok)

\* ------------------------------------------------------- FavoritesProvider

\* The contents of globalState.get('peekabus.peek-a-bus.favorites', []); a favorite is
\* identified by its id, `queue:${connectionString}:${label}`, here the item's key.
Favorites == IF store.favorites = 0 THEN <<>> ELSE store.arrays[store.favorites]

\* addToFavorites up to its await of getServiceBusName: favorites is the array the
\* Memento holds, or a new empty array when it holds none; an id found in it gets the
\* message 'already in favorites' and the call returns.
AddToFavorites(k) ==
  LET fresh == store.favorites = 0
      arr == IF fresh THEN Len(store.arrays) + 1 ELSE store.favorites
  IN /\ CanBegin
     /\ IF \E i \in DOMAIN Favorites : Favorites[i] = k
        THEN /\ last' = Result("addToFavorites", "already", FALSE)
             /\ UNCHANGED <<store, tasks>>
        ELSE /\ fresh => Len(store.arrays) < MaxArrays
             /\ store' = IF fresh THEN [store EXCEPT !.arrays = Append(@, <<>>)] ELSE store
             /\ tasks' = tasks (+) Bag1([Task("addToFavorites", k) EXCEPT
                                           !.pc = "favName", !.arr = arr])
             /\ UNCHANGED last
     /\ UNCHANGED <<clients, adminClients, clientObjs, adminCount, activeMonitors, receivers,
                    sessionEntities, icons, opn, info, ui, subq, ret, messages>>

\* getServiceBusName has returned (it catches its own errors):
\* favorites.push(favoriteItem) on the array the call holds, then
\* globalState.update(key, favorites), which keeps a clone of that array.
AddToFavoritesSettles(rec) ==
  LET pushed == [store.arrays EXCEPT ![rec.arr] = Append(@, rec.key)] IN
  /\ rec.pc = "favName"
  /\ Len(store.arrays) < MaxArrays
  /\ store' = [store EXCEPT !.arrays = Append(pushed, pushed[rec.arr]),
                            !.favorites = Len(pushed) + 1]
  /\ tasks' = Others(rec)
  /\ last' = Result(rec.op, "added", FALSE)
  /\ UNCHANGED <<clients, adminClients, clientObjs, adminCount, activeMonitors, receivers,
                 sessionEntities, icons, opn, info, ui, subq, ret, messages>>

\* removeFromFavorites of a favorite shown in the view:
\* globalState.update(key, favorites.filter(f => f.id !== id))
RemoveFromFavorites(k) ==
  /\ \E i \in DOMAIN Favorites : Favorites[i] = k
  /\ Len(store.arrays) < MaxArrays
  /\ store' = [store EXCEPT !.arrays = Append(@, SelectSeq(Favorites, LAMBDA f : f # k)),
                            !.favorites = Len(store.arrays) + 1]
  /\ last' = Result("removeFromFavorites", "removed", FALSE)
  /\ UNCHANGED <<clients, adminClients, clientObjs, adminCount, activeMonitors, receivers,
                 sessionEntities, icons, opn, info, ui, subq, ret, messages, tasks>>

NextFavorites ==
  \/ \E k \in Keys : AddToFavorites(k)
  \/ \E rec \in Running : AddToFavoritesSettles(rec)
  \/ \E k \in Keys : RemoveFromFavorites(k)

NextTeardown ==
  \/ \E k \in Topology : ToggleMonitoring(k[1], k[2])
  \/ \E rec \in Running, ok \in BOOLEAN : StartProps(rec, ok)
  \/ Deactivate
  \/ \E rec \in Running : \E r \in rec.pending, ok \in BOOLEAN : StopAllSettle(rec, r, ok)
  \/ \E rec \in Running : StopAllFinish(rec)
  \/ \E rec \in Running : \E c \in rec.pending, ok \in BOOLEAN : CloseAllSettle(rec, c, ok)
  \/ \E rec \in Running : CloseAllFinish(rec)

Next ==
  \/ NextClients \/ NextMonitors \/ NextMessages \/ Deactivate \/ NextRetrieval
  \/ NextPurge \/ NextTransfer \/ NextErrors \/ NextInfo
  \/ NextConnections \/ NextFavorites

\* Every call and every broker event.
Spec == Init /\ [][Next]_vars

\* The client cache alone, on a broker with no session entity.
InitClients == Init /\ sessionEntities = {}
SpecClients == InitClients /\ [][NextClients]_vars

\* The registry: the calls that start and stop monitors.
SpecMonitors == Init /\ [][NextMonitors]_vars

\* Messages arriving at monitored entities, with the monitoring calls made one at a time.
SpecDelivery == Init /\ [][NextDelivery]_vars

\* Monitors started from the tree, then the extension deactivated.
SpecTeardown == Init /\ [][NextTeardown]_vars

\* Retrievals alone, in peek mode and in receive mode.
SpecPeek == InitClients /\ [][NextPeek]_vars
SpecReceive == InitClients /\ [][NextReceive]_vars

\* Purges alone, and dead-letter transfers alone.
SpecPurge == InitClients /\ [][NextPurge]_vars
SpecTransfer == InitClients /\ [][NextTransfer]_vars

\* getServiceBusInfo calls, one at a time.
SpecInfo == InitClients /\ [][NextInfo]_vars

\* The commands' error handling alone.
SpecErrors == InitClients /\ [][NextErrors]_vars

\* Connections added and removed while their items are monitored.
SpecConnections == InitClients /\ [][NextConnections]_vars

\* Favorites added and removed, the calls overlapping at their awaits.
SpecFavorites == InitClients /\ [][NextFavorites]_vars

\* Receive-mode retrievals with a broker that answers every call in the end: each
\* awaited receiveMessages (maxWaitTimeInMs: 2000), abandonMessage and close settles.
SpecReceiveFair ==
  /\ SpecReceive
  /\ \A q \in SubQueues :
       /\ WF_vars(\E ok \in BOOLEAN, n \in 0..ReceiveBatchSize : ReceiveSettles(q, ok, n))
       /\ WF_vars(\E seq \in 1..MaxQueued, ok \in BOOLEAN : AbandonSettles(q, seq, ok))
       /\ WF_vars(\E ok \in BOOLEAN : CloseSettles(q, ok))

\* -------------------------------------------------------------- properties

\* C1: in every reachable state, for each key every receiver that is open and
\* subscribed is the one recorded in activeMonitors (so there is at most one).
C1_OneSubscribedReceiverPerKey ==
  \A k \in Keys : Subscribed(k) \subseteq ({activeMonitors[k]} \ {0})

\* C2: a startMonitoring that found an entry for its key and ran with no other call
\* for the key in flight has, by the time it awaits the entity's properties, closed the
\* previous receiver and removed its entry; when it then succeeds it creates one new
\* receiver, subscribed, and the key's entry refers to that receiver.
C2_RestartReplacesMonitor ==
  [][\A rec \in Running :
       (rec.pc = "startProps" /\ rec.mon # 0 /\ rec.alone) =>
         /\ receivers[rec.mon].st = "closed"
         /\ activeMonitors[rec.key] = 0
         /\ StartProps(rec, TRUE) =>
              /\ Len(receivers') = Len(receivers) + 1
              /\ activeMonitors'[rec.key] = Len(receivers')
              /\ activeMonitors'[rec.key] # rec.mon
              /\ receivers'[Len(receivers')].key = rec.key
              /\ receivers'[Len(receivers')].st = "subscribed"
              /\ receivers'[rec.mon].st = "closed"
              /\ last' = "restarted"]_vars

\* C2 witness: a restart has returned; receiver 1 is closed and the key's entry is receiver 2.
C2_Restarted ==
  /\ last = "restarted"
  /\ \E k \in Keys : /\ activeMonitors[k] = 2
                     /\ receivers[1].key = k /\ receivers[1].st = "closed"
                     /\ receivers[2].key = k /\ receivers[2].st = "subscribed"

\* C3: a message that has arrived at a monitored entity stays in the live entity: the
\* monitor neither completes it nor makes the broker move it out.
C3_MessageStaysInLiveEntity ==
  \A m \in Messages : messages[m].st # "absent" => InLiveEntity(m)

\* C4: with a single monitor ever started, the onMessage callback is invoked at most
\* once for one message.
C4_CallbackOncePerMessage ==
  \A m \in Messages : Len(receivers) <= 1 => messages[m].cb <= 1

\* C5: when the properties of an entity that requires sessions arrive, startMonitoring
\* creates no receiver, adds no entry (isMonitoring is false for the key), reports the
\* warning and returns without throwing.
C5_SessionEntityDeclined ==
  [][\A rec \in Running :
       (rec.key[2] \in sessionEntities /\ StartProps(rec, TRUE)) =>
         /\ receivers' = receivers
         /\ activeMonitors' = activeMonitors
         /\ activeMonitors'[rec.key] = 0
         /\ \A r \in DOMAIN receivers' : receivers'[r].key # rec.key
         /\ last' = "declined"]_vars

\* C5 witness: a start on a session entity has returned declined, nothing registered for it.
C5_Declined ==
  /\ last = "declined"
  /\ \E k \in Keys : k[2] \in sessionEntities /\ ~isMonitoring(k[1], k[2])

C7_StopFrame ==
  [][/\ \A k \in Topology :
          StopCall(k[1], k[2]) =>
            IF activeMonitors[MonitorKey(k[1], k[2])] = 0
            THEN UNCHANGED <<clients, adminClients, clientObjs, adminCount, activeMonitors,
                             receivers, sessionEntities, messages, tasks>>
            ELSE /\ receivers'[activeMonitors[MonitorKey(k[1], k[2])]].st \in {"closing", "closed"}
                 /\ \A r \in DOMAIN receivers :
                      r # activeMonitors[MonitorKey(k[1], k[2])] => receivers'[r] = receivers[r]
                 /\ activeMonitors' = activeMonitors
     /\ \A rec \in Running :
          (rec.op = "stop" /\ StopSettle(rec, TRUE)) =>
            /\ receivers'[rec.mon].st = "closed"
            /\ activeMonitors'[rec.key] = 0
            /\ \A k \in Keys : k # rec.key => activeMonitors'[k] = activeMonitors[k]
            /\ \A r \in DOMAIN receivers : r # rec.mon => receivers'[r] = receivers[r]
            /\ DOMAIN receivers' = DOMAIN receivers]_vars

\* C7 witness: a stop has returned for one key while another key is still monitored.
C7_StoppedOneOfTwo ==
  /\ last = "stopped"
  /\ \E k1, k2 \in Keys :
       /\ k1 # k2
       /\ activeMonitors[k1] = 0
       /\ \E r \in DOMAIN receivers : receivers[r].key = k1 /\ receivers[r].st = "closed"
       /\ activeMonitors[k2] # 0
       /\ receivers[activeMonitors[k2]].st = "subscribed"

\* C8: whenever stopAllMonitoring settles, by resolving or by rejecting, activeMonitors
\* is empty.
C8_StopAllLeavesRegistryEmpty ==
  [][\A rec \in Running :
       ((\E r \in rec.pending : StopAllSettle(rec, r, FALSE)) \/ StopAllFinish(rec)) =>
         \A k \in Keys : activeMonitors'[k] = 0]_vars

\* C9: a cached client was built for its connection string, two connection strings
\* never share an instance, getClient (getAdminClient) on a cached connection string
\* returns the cached instance, and a cached instance is replaced or dropped only by
\* a close.
C9_OneClientPerConnection ==
  [][/\ \A cs \in ConnStrs :
          GetClient(cs) => /\ clients[cs] # 0 => clients'[cs] = clients[cs]
                           /\ clients'[cs] # 0
     /\ \A cs \in ConnStrs :
          GetAdminClient(cs) => /\ adminClients[cs] # 0 => adminClients'[cs] = adminClients[cs]
                                /\ adminClients'[cs] # 0
     /\ \A cs \in ConnStrs :
          (clients[cs] # 0 /\ clients'[cs] # clients[cs]) =>
            \E rec \in Running : CloseClientSettle(rec, TRUE) \/ CloseAllFinish(rec)
     /\ \A cs \in ConnStrs :
          (adminClients[cs] # 0 /\ adminClients'[cs] # adminClients[cs]) =>
            \/ \E rec \in Running : CloseClientSettle(rec, TRUE) \/ CloseAllFinish(rec)
            \/ CloseClientCall(cs)
     /\ \A cs \in ConnStrs : clients'[cs] # 0 => clientObjs'[clients'[cs]].cs = cs
     /\ \A c1, c2 \in ConnStrs :
          c1 # c2 => /\ clients'[c1] # 0 => clients'[c1] # clients'[c2]
                     /\ adminClients'[c1] # 0 => adminClients'[c1] # adminClients'[c2]]_vars

\* C9 witness: both connection strings have a data-plane and a control-plane client cached.
C9_BothCached ==
  \A cs \in ConnStrs : clients[cs] # 0 /\ adminClients[cs] # 0

\* C10: whenever closeAllClients settles, by resolving or by rejecting, both caches are
\* empty.
C10_CloseAllLeavesCachesEmpty ==
  [][\A rec \in Running :
       ((\E c \in rec.pending : CloseAllSettle(rec, c, FALSE)) \/ CloseAllFinish(rec)) =>
         \A cs \in ConnStrs : clients'[cs] = 0 /\ adminClients'[cs] = 0]_vars

\* C11: closeClient(cs) calls close on the data-plane client cached for cs and, when
\* that close resolves, the client is closed and neither cache holds a handle for cs, so
\* the next getClient(cs) builds a new open client; with no data-plane client cached it
\* evicts the control-plane handle at once. The handles cached for every other
\* connection string, and every other client, are as they were.
C11_CloseClientFrame ==
  [][/\ \A cs \in ConnStrs :
          CloseClientCall(cs) =>
            /\ \A o \in ConnStrs : o # cs => /\ clients'[o] = clients[o]
                                             /\ adminClients'[o] = adminClients[o]
            /\ \A c \in DOMAIN clientObjs : c # clients[cs] => clientObjs'[c] = clientObjs[c]
            /\ IF clients[cs] # 0
               THEN clientObjs'[clients[cs]].st \in {"closing", "closed"}
               ELSE adminClients'[cs] = 0
     /\ \A rec \in Running :
          CloseClientSettle(rec, TRUE) =>
            /\ clientObjs'[rec.cli].st = "closed"
            /\ clients'[rec.key[1]] = 0
            /\ adminClients'[rec.key[1]] = 0
            /\ \A o \in ConnStrs : o # rec.key[1] => /\ clients'[o] = clients[o]
                                                     /\ adminClients'[o] = adminClients[o]
            /\ \A c \in DOMAIN clientObjs : c # rec.cli => clientObjs'[c] = clientObjs[c]
     /\ \A cs \in ConnStrs :
          (GetClient(cs) /\ clients[cs] = 0) =>
            /\ clients'[cs] \notin DOMAIN clientObjs
            /\ clientObjs'[clients'[cs]].st = "open"
     /\ \A cs \in ConnStrs :
          (GetAdminClient(cs) /\ adminClients[cs] = 0) => adminClients'[cs] > adminCount]_vars

\* C11 witness: csA's client is closed and evicted from both caches while csB's
\* handles are still cached and its client open.
C11_ClosedOneOfTwo ==
  /\ clients["csA"] = 0 /\ adminClients["csA"] = 0
  /\ \E c \in DOMAIN clientObjs : clientObjs[c].cs = "csA" /\ clientObjs[c].st = "closed"
  /\ clients["csB"] # 0 /\ adminClients["csB"] # 0
  /\ clientObjs[clients["csB"]].st = "open"

\* C12: a retrieval asked for fewer than one message of both sub-queues resolves at once
\* with both sides empty, without obtaining a client and without a receiver or a broker
\* call; asked for fewer than one of exactly one sub-queue, it resolves that side empty
\* without creating a receiver for it, and starts the other side with its amount.
C12_SkippedSides ==
  /\ [][\A k \in Keys, amount \in Amounts, dlAmount \in Amounts, receive \in BOOLEAN :
          RetrieveCall(k, amount, dlAmount, receive) =>
            LET asked == [live |-> amount, dl |-> dlAmount]
            IN /\ (amount < 1 /\ dlAmount < 1) =>
                    /\ ret'.out = "resolved"
                    /\ clients' = clients /\ clientObjs' = clientObjs
                    /\ subq' = subq
               /\ \A q \in SubQueues :
                    IF asked[q] < 1
                    THEN /\ ret'.side[q].pc = "skipped"
                         /\ ret'.side[q].rcv = "none"
                         /\ ret'.side[q].all = <<>>
                    ELSE /\ ret'.side[q].pc = IF receive THEN "receiving" ELSE "peeking"
                         /\ ret'.side[q].rcv = "open"
                         /\ ret'.side[q].amount = asked[q]]_vars
  /\ [](\A q \in SubQueues :
          ret.side[q].pc = "skipped" =>
            /\ ret.side[q].rcv = "none" /\ ret.side[q].all = <<>>
            /\ ret.side[q].batchCount = 0 /\ ret.side[q].landed = 0)

\* C12 witness: a retrieval that skipped the live side has resolved with the messages of
\* the dead-letter side.
C12_OneSideSkipped ==
  /\ ret.out = "resolved"
  /\ ret.side["live"].pc = "skipped"
  /\ ret.side["dl"].pc = "done" /\ ret.side["dl"].all # <<>>
  /\ subq["live"] # <<>>

C14_ReturnsAllHeld ==
  \A q \in SubQueues :
    (ret.side[q].pc = "done" /\ ret.side[q].amount > Cardinality(ret.side[q].held)) =>
      /\ Len(ret.side[q].all) = Cardinality(ret.side[q].held)
      /\ {ret.side[q].all[i].seq : i \in DOMAIN ret.side[q].all} = ret.side[q].held

\* C15: once a peek-mode retrieval is called no step of it changes the sub-queues: no
\* message is locked, none changes its delivery count, none changes place; the retrieval
\* makes no receiveMessages and no abandonMessage call.
C15_PeekLeavesSubQueues ==
  /\ [][(ret.n > 0 /\ ~ret.receive) => subq' = subq]_vars
  /\ [][\A q \in SubQueues, ok \in BOOLEAN, c \in 0..MaxQueued :
          PeekLands(q, ok, c) => /\ subq' = subq
                                 /\ ret'.side[q].batchCount = 0
                                 /\ ret'.side[q].pend = {}]_vars
  /\ [](~ret.receive => \A q \in SubQueues : ret.side[q].batchCount = 0 /\ ret.side[q].pend = {})

\* C15 witness: a peek-mode retrieval has resolved with messages of both sub-queues and
\* every message is unlocked with the delivery count it was sent with.
C15_PeekedBothSides ==
  /\ ret.out = "resolved" /\ ~ret.receive
  /\ ret.side["live"].all # <<>> /\ ret.side["dl"].all # <<>>
  /\ \A q \in SubQueues : \A i \in DOMAIN subq[q] : subq[q][i].dc = 0 /\ ~subq[q][i].lk

\* C16: when a receive-mode side has finished, every message its sub-queue held at the
\* call is still in that sub-queue.
C16_MessagesStayInSubQueue ==
  \A q \in SubQueues :
    (ret.receive /\ ret.side[q].pc = "done") => ret.side[q].held \subseteq Held(q)

\* C17: the receive loop of a side ends: a receiveMessages call is pending only while
\* fewer unique messages than asked for are collected and fewer than ceil(amount/10)+5
\* batches were received, an empty batch ends the loop, the loop goes on after a batch
\* exactly when both bounds still hold, the batches received never exceed
\* ceil(amount/10)+5, and from some point on no side is in its loop any more.
C17_ReceiveLoopEnds ==
  /\ [](\A q \in SubQueues :
          /\ ret.side[q].batchCount <= (ret.side[q].amount + 9) \div 10 + 5
          /\ ret.side[q].pc = "receiving" =>
               /\ Len(ret.side[q].all) < ret.side[q].amount
               /\ ret.side[q].batchCount < (ret.side[q].amount + 9) \div 10 + 5)
  /\ [][\A q \in SubQueues :
          /\ ReceiveSettles(q, TRUE, 0) => ret'.side[q].pc = "closing"
          /\ \A n \in 0..ReceiveBatchSize :
               ReceiveSettles(q, TRUE, n) => ret'.side[q].batchCount = ret.side[q].batchCount + 1
          /\ \A seq \in 1..MaxQueued :
               (AbandonSettles(q, seq, TRUE) /\ ret.side[q].pc = "abandoning"
                  /\ ret.side[q].pend = {seq}) =>
                 IF /\ Len(ret.side[q].all) < ret.side[q].amount
                    /\ ret.side[q].batchCount < (ret.side[q].amount + 9) \div 10 + 5
                 THEN ret'.side[q].pc = "receiving"
                 ELSE ret'.side[q].pc = "closing"]_vars
  /\ <>[](\A q \in SubQueues : ret.side[q].pc \notin {"receiving", "abandoning"})

\* C17 witness: a side has left the loop at the batch ceiling, with fewer unique messages
\* than asked for and its last batch not empty.
C17_StoppedAtCeiling ==
  \E q \in SubQueues :
    /\ ret.side[q].pc = "done"
    /\ ret.side[q].batchCount = 6
    /\ Len(ret.side[q].all) < ret.side[q].amount
    /\ \A i \in DOMAIN subq[q] : subq[q][i].dc = 6
    /\ subq[q] # <<>>

\* C18: a peek-mode side makes exactly 5 peekMessages calls: never more than 5 of its
\* calls settle, and it goes on to deduplicate and close when 5 have settled.
C18_FivePeeks ==
  \A q \in SubQueues :
    (~ret.receive /\ ret.side[q].rcv # "none") =>
      /\ ret.side[q].landed <= 5
      /\ ret.side[q].pc # "peeking" => ret.side[q].landed = 5

\* C19: a failed peekMessages call adds nothing to what its side has collected, raises
\* no exception in the side, settles no retrieval and notifies no error; a successful
\* one folds its batch into the collected list; a peek-mode side fails only when its
\* receiver's close fails, and while no peekMessages call has succeeded the collected
\* lists are empty.
C19_FailedPeekIsEmptyBatch ==
  /\ [][\A q \in SubQueues, c \in 0..MaxQueued :
          /\ PeekLands(q, FALSE, c) =>
               /\ ret'.side[q].all = ret.side[q].all
               /\ ~ret'.side[q].err
               /\ ret'.side[q].landed = ret.side[q].landed + 1
               /\ ret'.side[q].pc \in {"peeking", "closing"}
               /\ ret'.out = ret.out /\ ret'.errs = ret.errs
          /\ PeekLands(q, TRUE, c) =>
               ret'.side[q].all = Collect(ret.side[q].all, Window(q, c, ret.side[q].amount))]_vars
  /\ [](~ret.receive =>
          \A q \in SubQueues :
            /\ ~ret.side[q].err
            /\ ret.side[q].pc = "failed" => ret.side[q].rcv = "closeFailed"
            /\ ~ret.ps => ret.side[q].all = <<>>)

\* C19 witness: a peek-mode retrieval some of whose peekMessages calls failed and some
\* succeeded has resolved with messages and without an error notification.
C19_ResolvedDespiteFailedPeeks ==
  /\ ~ret.receive /\ ret.pf /\ ret.ps
  /\ ret.out = "resolved" /\ ret.errs = 0
  /\ ret.side["live"].all # <<>>

\* C20: once a retrieval has settled, resolved or rejected, every receiver it created
\* is closed (settlements in which a close() call itself failed are left aside).
C20_ReceiversClosedAtSettle ==
  (/\ ret.out \in {"resolved", "rejected"}
   /\ \A q \in SubQueues : ret.side[q].rcv # "closeFailed") =>
    \A q \in SubQueues : ret.side[q].rcv \in {"none", "closed"}

C22_CompletedOnlyAfterSend ==
  /\ [](opn.kind = "transfer" =>
          /\ Len(opn.chunk) <= ChunkSize
          /\ opn.done \subseteq Accepted
          /\ opn.pc = "complete" => {opn.todo[i].seq : i \in DOMAIN opn.todo} \subseteq Accepted)
  /\ [][\A ok \in BOOLEAN :
          (CompleteSettles(ok) /\ opn.kind = "transfer") =>
            /\ Head(opn.todo).seq \in Accepted
            /\ \E i \in DOMAIN opn.chunk : opn.chunk[i].seq = Head(opn.todo).seq]_vars

\* A transfer has sent its second chunk and completed messages of both.
C22_SecondChunkCompleted ==
  /\ opn.kind = "transfer" /\ opn.sends = 2 /\ opn.pc = "closeRcv"
  /\ Cardinality(opn.done) = Backlog

C24_ReceiverAndSenderClosedAtSettle ==
  (opn.kind = "transfer" /\ opn.out \in {"resolved", "rejected"}) =>
    /\ opn.rcv \in {"closed", "closeFailed"}
    /\ opn.snd \in {"closed", "closeFailed"}

\* C25: when sendMessages fails for a chunk of a transfer, no message of that chunk or of
\* a later chunk is or becomes completed (they stay in the dead-letter sub-queue), every
\* earlier chunk has been sent and completed, no message is sent again and the transfer
\* is rejected with that one failure reported; when a completion fails after its chunk was
\* sent, the uncompleted messages of the chunk are both in the dead-letter sub-queue and
\* among the messages the destination accepted.
C25_FailedChunkStaysDeadLettered ==
  /\ [](opn.kind = "transfer" =>
          /\ (opn.held \ opn.done) \subseteq Held("dl")
          /\ opn.err => opn.pc \in {"closeRcv", "closeSnd", "idle"}
          /\ (opn.err /\ opn.pc = "idle") => (opn.out = "rejected" /\ opn.errs = 1))
  /\ [][(SendSettles(FALSE) /\ opn.kind = "transfer") =>
          /\ \A i \in DOMAIN opn.chunk : opn.chunk[i].seq \notin opn.done \cup Accepted
          /\ \A i \in DOMAIN opn.got : opn.got[i].seq \notin opn.done \cup Accepted
          /\ Accepted = opn.done
          /\ Cardinality(opn.done) = (opn.sends - 1) * ChunkSize
          /\ opn'.err /\ opn'.pc = "closeRcv" /\ opn'.sends = opn.sends
          /\ opn'.done = opn.done /\ opn'.dest = opn.dest /\ subq' = subq]_vars
  /\ [][(opn.kind = "transfer" /\ opn.err /\ opn'.n = opn.n) =>
          (opn'.sends = opn.sends /\ opn'.done = opn.done /\ opn'.dest = opn.dest
           /\ subq' = subq)]_vars
  /\ [][(CompleteSettles(FALSE) /\ opn.kind = "transfer") =>
          /\ \A i \in DOMAIN opn.todo :
               opn.todo[i].seq \in Held("dl") /\ opn.todo[i].seq \in Accepted
          /\ opn'.todo = opn.todo /\ opn'.dest = opn.dest /\ subq' = subq]_vars

\* The second chunk's sendMessages failed after the first chunk was sent and completed,
\* and the transfer was rejected.
C25_SecondChunkSendFailed ==
  /\ opn.kind = "transfer" /\ opn.out = "rejected" /\ opn.sends = 2
  /\ Cardinality(opn.done) = ChunkSize /\ Len(opn.dest) = ChunkSize
  /\ Len(subq["dl"]) = Backlog - ChunkSize /\ opn.chunk # <<>>

\* C26: whenever the broker call of an exported operation of serviceBusService has
\* failed and the exception has run its course, the operation's own catch has reported
\* it through ErrorHandler.handleError and the operation has rejected to its caller.
C26_FailureReportedAndRethrown ==
  (ui.pc = "idle" /\ ui.failed \in ServiceOperations) =>
    /\ ui.failed \in ui.reported
    /\ ui.failed \in ui.rejected
    /\ ui.logged >= 1

\* C27: a command the user ran (deactivate is run by the host) in which one broker call
\* failed has shown the user exactly one error message by the time it settles.
C27_OneNotificationPerFailure ==
  (ui.pc = "idle" /\ ui.op \in Commands \ {"deactivate"} /\ ui.failed # "none") =>
    Len(ui.shown) = 1

\* C28: validateConnectionString answers a connection string that includes
\* 'AccountEndpoint=' or 'documents.azure.com' with the Cosmos DB message, and not with
\* one of the 'Invalid Service Bus connection string' messages.
C28_CosmosStringGetsCosmosMessage ==
  (/\ ui.op = "addConnection"
   /\ ui.input \in ConnectionStrings
   /\ ui.input.includes \cap {"AccountEndpoint=", "documents.azure.com"} # {}) =>
    ui.shown = <<Message("validation", "addConnection",
                         {"This appears to be a Cosmos DB connection string."})>>

\* C29: every handleError call shows exactly one message: for an Error, the text of the
\* first category, in the order network, authentication, invalid signature, not found,
\* rate limited, forbidden, one of whose signatures its message includes, and the raw
\* message after 'Error during <operation>' when it includes none; for a value that is
\* no Error, the 'Unknown error during <operation>' text.
C29_FirstMatchingCategory ==
  [][(Unwind /\ Head(ui.frames).catch \in {"handleError", "handleErrorOnly"}) =>
       /\ Len(ui'.shown) = Len(ui.shown) + 1
       /\ SubSeq(ui'.shown, 1, Len(ui.shown)) = ui.shown
       /\ ui'.shown[Len(ui'.shown)].operation = Head(ui.frames).fn
       /\ ui'.shown[Len(ui'.shown)].kind \in
            {"network", "authentication", "invalidSignature", "notFound", "rateLimit",
             "forbidden", "raw", "unknown"}
       /\ (ui'.shown[Len(ui'.shown)].kind = "unknown") = ~ui.err.isError
       /\ ui.err.isError =>
            /\ (ui'.shown[Len(ui'.shown)].kind = "network") =
                 (ui.err.includes \cap {"ENOTFOUND", "ETIMEDOUT"} # {})
            /\ (ui'.shown[Len(ui'.shown)].kind = "authentication") =
                 /\ ui.err.includes \cap {"ENOTFOUND", "ETIMEDOUT"} = {}
                 /\ ui.err.includes \cap {"Unauthorized", "401"} # {}
            /\ (ui'.shown[Len(ui'.shown)].kind = "invalidSignature") =
                 /\ ui.err.includes \cap {"ENOTFOUND", "ETIMEDOUT", "Unauthorized", "401"} = {}
                 /\ ui.err.includes \cap {"InvalidSignature", "invalid signature"} # {}
            /\ (ui'.shown[Len(ui'.shown)].kind = "notFound") =
                 /\ ui.err.includes \cap {"ENOTFOUND", "ETIMEDOUT", "Unauthorized", "401",
                                          "InvalidSignature", "invalid signature"} = {}
                 /\ ui.err.includes \cap {"404", "does not exist"} # {}
            /\ (ui'.shown[Len(ui'.shown)].kind = "rateLimit") =
                 /\ ui.err.includes \cap {"ENOTFOUND", "ETIMEDOUT", "Unauthorized", "401",
                                          "InvalidSignature", "invalid signature", "404",
                                          "does not exist"} = {}
                 /\ ui.err.includes \cap {"429", "Too many requests"} # {}
            /\ (ui'.shown[Len(ui'.shown)].kind = "forbidden") =
                 /\ ui.err.includes \cap {"ENOTFOUND", "ETIMEDOUT", "Unauthorized", "401",
                                          "InvalidSignature", "invalid signature", "404",
                                          "does not exist", "429", "Too many requests"} = {}
                 /\ ui.err.includes \cap {"403", "Forbidden"} # {}
            /\ (ui'.shown[Len(ui'.shown)].kind = "raw") = (ui.err.includes = {})
            /\ ui'.shown[Len(ui'.shown)].text =
                 IF ui.err.includes = {} THEN ui.err.includes ELSE {}]_vars

\* An error whose message includes both '401' and '404' was reported as an
\* authentication failure.
C29_AuthenticationBeforeNotFound ==
  /\ ui.pc = "idle" /\ ui.err.isError /\ {"401", "404"} \subseteq ui.err.includes
  /\ "ENOTFOUND" \notin ui.err.includes /\ "ETIMEDOUT" \notin ui.err.includes
  /\ Len(ui.shown) = 1 /\ ui.shown[1].kind = "authentication"

\* C30: getServiceBusInfo reads its listings in a single wave: the queue listing and the
\* topic listing are started together, and once the topic listing has returned the
\* topics, the subscription listing of every one of them has been started, whether or
\* not the queue listing has finished.
C30_SingleWaveOfListings ==
  /\ (info.lst["queues"] = "none") = (info.lst["topics"] = "none")
  /\ (info.out = "pending" /\ info.lst["topics"] = "done") =>
       \A t \in info.found : info.lst[t] # "none"

\* C33: the list a side of a retrieval returns never holds more messages than the amount
\* asked of that side.
C33_AtMostAmountReturned ==
  \A q \in SubQueues :
    ret.side[q].pc \in {"done", "skipped"} => Len(ret.side[q].all) <= ret.side[q].amount

\* C34: every message a receiveMessages call of a retrieval hands over is in the side's
\* list afterwards, or a message with the same messageId is; a message sent without a
\* messageId is no exception.
C34_FetchedMessageIsListed ==
  [][\A q \in SubQueues, n \in 1..ReceiveBatchSize :
       ReceiveSettles(q, TRUE, n) =>
         \A i \in 1..n :
           \E j \in DOMAIN ret'.side[q].all :
             \/ ret'.side[q].all[j].seq = Available(q)[i].seq
             \/ /\ ret'.side[q].all[j].id = Available(q)[i].id
                /\ Available(q)[i].id # ""]_vars

\* C35: during the first receive-mode retrieval of an entity no message's delivery count
\* has risen by more than 1 over the count it was sent with.
C35_DeliveredAtMostOnce ==
  (ret.receive /\ ret.n <= 1) =>
    \A q \in SubQueues : \A i \in DOMAIN subq[q] : subq[q][i].dc <= 1

\* C36: no step of a dead-letter transfer made for a subscription changes the messages
\* of the other subscriptions of the topic.
C36_OtherSubscriptionsUnchanged ==
  [][(opn.kind = "transfer" /\ opn'.n = opn.n /\ EntityType(opn.key[2]) = "subscription") =>
       opn'.others = opn.others]_vars

\* C37: in every state the client a getClient call made in it returns is open: close()
\* has not been called on it, whatever closeClient and closeAllClients calls are in flight.
C37_GetClientReturnsOpenClient ==
  \A cs \in ConnStrs :
    CanGetClient(cs) => ClientObjsAfterGet(cs)[ClientsAfterGet(cs)[cs]].st = "open"

\* C39: when a toggleMonitoring of a queue or subscription item has completed without
\* throwing, the item shows the bell icon exactly when isMonitoring is true for its key.
C39_BellIffMonitoring ==
  [][\A rec \in Running :
       (rec.cb /\ (StartProps(rec, TRUE) \/ StopSettle(rec, TRUE))) =>
         (icons'[rec.key] = "bell" <=> activeMonitors'[rec.key] # 0)]_vars

\* C32: once the removal of a connection node shown in the tree has been confirmed and
\* removeConnection has completed without reporting an error, the connection is gone,
\* with or without an alias: no secret, no record in the list, no cached client.
C32_ConfirmedRemovalDestroys ==
  [][\A node \in ConnStrs :
       (\/ RemoveConnection(node) /\ tasks' = tasks
        \/ \E rec \in Running : rec.key[1] = node /\ RemoveConnectionSettle(rec, TRUE)) =>
         /\ node \notin store'.secrets
         /\ store'.connections[node] = "none"
         /\ clients'[node] = 0]_vars

\* C38: once removeConnection, and the closeClient it awaits, has completed for a
\* connection string, no monitor remains registered for that connection string.
C38_NoMonitorAfterRemoval ==
  [][\A cs \in ConnStrs :
       (\/ RemoveConnection(cs) /\ store'.connections[cs] = "none"
        \/ \E rec \in Running : rec.key[1] = cs /\ RemoveConnectionSettle(rec, TRUE)) =>
         \A e \in Entities : MonitorKey(cs, e) \in Keys => ~isMonitoring(cs, e)']_vars

\* C31: the stored favorites list never holds two entries with the same id, whatever the
\* interleaving of addToFavorites calls, two calls for the same item that overlap at the
\* await between the duplicate check and the write included.
C31_NoDuplicateFavorites ==
  \A i, j \in DOMAIN Favorites : i # j => Favorites[i] # Favorites[j]

====
